---- MODULE Spec2Model ----
(***************************************************************************)
(* StreamFlix: the populate-movies edge function (catalog ingestion) and   *)
(* the browsing page (catalog query engine), as state machines.            *)
(*                                                                         *)
(* Part I   the persisted store and the populate-movies handler            *)
(* Part II  the browsing page: paginated loading and infinite scroll       *)
(* Part III the browsing page: the filtered view                           *)
(***************************************************************************)
EXTENDS Integers, Sequences, FiniteSets, TLC

(***************************************************************************)
(* Bounds of the model.  targetMovieCount and moviesPerPage are the        *)
(* handler's 1000 and 20, scaled down; the handler derives maxPages and    *)
(* pagesForThisSort from them as below.                                    *)
(***************************************************************************)
targetMovieCount == 3
moviesPerPage == 1
\* provider movie ids are 1..NumPids
NumPids == 4
\* the longest results list one discover page carries in the model
MaxPageLen == 2
\* the handler's caps on the cast (10) and crew (15) rows of a movie, scaled
castLimit == 2
crewLimit == 2
\* the browsing page's MOVIES_PER_PAGE (15), scaled
MOVIES_PER_PAGE == 2
\* catalog rows the browsing page can be served are 1..NumItems
NumItems == 3
\* page requests that may await their answer at once, and the last page
\* number the model requests
MaxInflight == 2
MaxPage == 1

Runs == {1, 2}
Pids == 1..NumPids
\* a nullable value: None is null (or undefined), Some(x) is the value x
None == <<>>
Some(x) == <<x>>

sortingMethods == <<"popularity.desc", "vote_average.desc">>

CeilDiv(a, b) == (a + b - 1) \div b
maxPages == CeilDiv(targetMovieCount, moviesPerPage)
pagesForThisSort == CeilDiv(maxPages, Len(sortingMethods))

clearOrder_CatalogFirst ==
  <<"movies", "cast_members", "crew_members", "user_ratings", "viewing_history",
    "watchlist">>

\* the order in which the handler clears the tables
clearOrder ==
  <<"cast_members", "crew_members", "user_ratings", "viewing_history",
    "watchlist", "movies">>
Tables == {clearOrder[n] : n \in 1..Len(clearOrder)}
\* tables whose movie_id references movies(id) ON DELETE CASCADE
Dependents == Tables \ {"movies"}

VARIABLES
  tbl,            \* the store: table name -> set of rows
  pc,             \* per run: position in the handler
  tmdbApiKey,     \* per run: whether Deno.env.get("TMDB_API_KEY") is set
  sortIdx,        \* per run: index into sortingMethods
  page,           \* per run: discover page number
  allMovies,      \* per run: accumulated provider records (their ids)
  uniqueMovies,   \* per run: deduplicated, truncated records
  i,              \* per run: loop index of the trailer and credits loops
  k,              \* per run: index into clearOrder
  moviesToInsert, \* per run: rows constructed for the bulk insert
  data,           \* per run: rows returned by the bulk insert
  castCount,      \* per run
  crewCount,      \* per run
  creditsData,    \* per run: the credits document of the current iteration
  response,       \* per run: the HTTP response of the invocation
  nFetch,         \* per run: provider requests issued
  reached,        \* per run: some provider request was answered with success
  nStore,         \* per run: store requests (delete, insert) issued
  waited          \* per run: the courtesy delay ran after the last provider request

ingestVars ==
  <<tbl, pc, tmdbApiKey, sortIdx, page, allMovies, uniqueMovies, i, k, moviesToInsert,
    data, castCount, crewCount, creditsData, response, nFetch, reached,
    nStore, waited>>

VARIABLES
  movies,         \* Index: the loaded list
  loading,        \* Index: the initial load is running
  loadingMore,    \* Index
  hasMore,        \* Index
  currentPage,    \* Index
  sortBy,         \* Index
  sortOrder,      \* Index
  loadData,       \* Index: position of the initial-load coroutine
  rendered,       \* Index: the state values of the last committed render
  handler,        \* Index: the state values the registered scroll handler closes over
  inflight,       \* Index: the catalog page requests awaiting their answer
  newMovies       \* Index: what the last answered page request bound to
                  \* newMovies, None when it threw before

browseVars ==
  <<movies, loading, loadingMore, hasMore, currentPage, sortBy, sortOrder,
    loadData, rendered, handler, inflight, newMovies>>

VARIABLES
  searchTerm,               \* Index
  selectedGenres,           \* Index (as a set: only membership is read)
  yearRange,                \* Index
  ratingRange,              \* Index (in tenths)
  durationRange,            \* Index
  subscriptionFilter,       \* Index
  filteredAndSortedMovies   \* Index: the memoized view of the last render

filterVars ==
  <<searchTerm, selectedGenres, yearRange, ratingRange, durationRange,
    subscriptionFilter, filteredAndSortedMovies>>

VARIABLES
  searchInput,        \* Index: the text of the search box
  searchSuggestions,  \* Index
  showSuggestions,    \* Index
  recentSearches,     \* Index
  localStorage        \* the browser's entry 'recentSearches': None or Some(text)

searchVars ==
  <<searchInput, searchSuggestions, showSuggestions, recentSearches, localStorage>>

VARIABLES
  user,               \* useAuth(): None, or the id of the signed-in user
  subscribed,         \* useAuth()
  subscriptionTier,   \* useAuth(): None, "Basic" or "Premium"
  showTrailer,        \* MovieCard: the ids of the cards whose trailer modal is open
  toast,              \* the title of the notice shown last, "" when none
  clicked             \* the Play button pressed last: None or Some([page, movie])

playVars == <<user, subscribed, subscriptionTier, showTrailer, toast, clicked>>

vars == <<ingestVars, browseVars, filterVars, searchVars, playVars>>

Min(a, b) == IF a <= b THEN a ELSE b

NoDuplicates(s) == \A a, b \in 1..Len(s) : a # b => s[a] # s[b]

\* Array.prototype.slice(a, b) on a sequence (a, b >= 0)
Slice(s, a, b) == SubSeq(s, a + 1, Min(b, Len(s)))

(***************************************************************************)
(* Part I.  The metadata provider's records.  A record is identified by    *)
(* its id; the other fields of the record with a given id are fixed, and   *)
(* the four ids cover the shapes the handler distinguishes: a full record, *)
(* one with an empty genre list, no rating and no release date, one with   *)
(* no genre list at all, and one with an unknown genre code.               *)
(* vote_average is in hundredths (0 when absent), release_date is the      *)
(* number YYYYMMDD (0 for the empty string), genre_ids is nullable.        *)
(***************************************************************************)
Provider(p) ==
  CASE p = 1 -> [id |-> 1, title |-> 1, genre_ids |-> Some(<<28, 12>>),
                 vote_average |-> 874, release_date |-> 19990331]
    [] p = 2 -> [id |-> 2, title |-> 2, genre_ids |-> Some(<<>>),
                 vote_average |-> 0, release_date |-> 0]
    [] p = 3 -> [id |-> 3, title |-> 3, genre_ids |-> None,
                 vote_average |-> 685, release_date |-> 19540426]
    [] p = 4 -> [id |-> 4, title |-> 4, genre_ids |-> Some(<<12345>>),
                 vote_average |-> 900, release_date |-> 19700101]
    [] OTHER -> [id |-> p, title |-> p, genre_ids |-> Some(<<18>>),
                 vote_average |-> 700, release_date |-> 20200101]

\* self.findIndex(m => m.id === id): the first index holding id
FindIndex(self, id) ==
  CHOOSE n \in 1..Len(self) :
    self[n] = id /\ \A m \in 1..(n - 1) : self[m] # id

RECURSIVE FilterFirst(_, _)
\* allMovies.filter((movie, index, self) =>
\*   index === self.findIndex(m => m.id === movie.id)), from index n on
FilterFirst(self, n) ==
  IF n > Len(self) THEN <<>>
  ELSE (IF n = FindIndex(self, self[n]) THEN <<self[n]>> ELSE <<>>)
         \o FilterFirst(self, n + 1)

\* the truncation without the filter
UniqueOf_NoFilter(all) == Slice(all, 0, targetMovieCount)

\* uniqueMovies = allMovies.filter(...).slice(0, targetMovieCount)
UniqueOf(all) == Slice(FilterFirst(all, 1), 0, targetMovieCount)

\* getGenreName: the static table, 'Drama' for a code it does not hold
getGenreName(genreId) ==
  CASE genreId = 28 -> "Action"
    [] genreId = 12 -> "Adventure"
    [] genreId = 16 -> "Animation"
    [] genreId = 35 -> "Comedy"
    [] genreId = 80 -> "Crime"
    [] genreId = 99 -> "Documentary"
    [] genreId = 18 -> "Drama"
    [] genreId = 10751 -> "Family"
    [] genreId = 14 -> "Fantasy"
    [] genreId = 36 -> "History"
    [] genreId = 27 -> "Horror"
    [] genreId = 10402 -> "Music"
    [] genreId = 9648 -> "Mystery"
    [] genreId = 10749 -> "Romance"
    [] genreId = 878 -> "Science Fiction"
    [] genreId = 10770 -> "TV Movie"
    [] genreId = 53 -> "Thriller"
    [] genreId = 10752 -> "War"
    [] genreId = 37 -> "Western"
    [] OTHER -> "Drama"

GenreOf_NoFallbackCode(movie) ==
  IF movie.genre_ids = None THEN <<"Action">>
  ELSE LET ids == movie.genre_ids[1]
       IN <<getGenreName(IF Len(ids) = 0 THEN 0 ELSE ids[1])>>

\* movie.genre_ids ? [getGenreName(movie.genre_ids[0] || 28)] : ['Action']
GenreOf(movie) ==
  IF movie.genre_ids = None THEN <<"Action">>
  ELSE LET ids == movie.genre_ids[1]
       IN IF Len(ids) = 0 \/ ids[1] = 0
          THEN <<getGenreName(28)>>
          ELSE <<getGenreName(ids[1])>>

\* movie.vote_average ? Math.round(movie.vote_average * 10) / 10 : null
\* (vote_average in hundredths, the result in tenths)
RatingOf(movie) ==
  IF movie.vote_average = 0 THEN None
  ELSE Some((movie.vote_average + 5) \div 10)

\* movie.release_date ? new Date(movie.release_date).getFullYear() : null
ReleaseYearOf(movie) ==
  IF movie.release_date = 0 THEN None
  ELSE Some(movie.release_date \div 10000)

\* Math.random() in thousandths: 0..999
\* Math.random() > 0.7 ? 'Premium' : 'Basic'
TierOf(rnd) == IF rnd > 700 THEN "Premium" ELSE "Basic"

\* Math.floor(Math.random() * 60) + 90
DurationOf_NoBase(rnd) == (rnd * 150) \div 1000

DurationOf(rnd) == (rnd * 60) \div 1000 + 90

\* videosData.results?.find(v => v.type === 'Trailer' && v.site === 'YouTube'),
\* turned into the watch URL (named here by the key it ends with), or null
TrailerUrlOf(videos) ==
  LET hits == {n \in 1..Len(videos) :
                 videos[n].type = "Trailer" /\ videos[n].site = "YouTube"}
  IN IF hits = {} THEN None
     ELSE LET first == CHOOSE n \in hits : \A m \in hits : n <= m
          IN Some(videos[first].key)

\* the object pushed on moviesToInsert
MakeRow(movie, trailerUrl, rndTier, rndDuration) ==
  [title |-> movie.title,
   genre |-> GenreOf(movie),
   rating |-> RatingOf(movie),
   release_year |-> ReleaseYearOf(movie),
   duration_minutes |-> DurationOf(rndDuration),
   subscription_tier |-> TierOf(rndTier),
   trailer_url |-> trailerUrl]

(***************************************************************************)
(* The store (the hosted Postgres): tables of rows.  A movies row has an   *)
(* id the store generates; a row of a dependent table carries movie_id,    *)
(* a foreign key to movies(id) with ON DELETE CASCADE.                     *)
(***************************************************************************)
MovieIds(t) == {m.id : m \in t["movies"]}

\* DELETE FROM name (the handler's .delete().neq('id', <zero uuid>) matches
\* every row); deleting movies cascades to the rows that reference them
DeleteAll(t, name) ==
  IF name = "movies"
  THEN [x \in Tables |->
          IF x = "movies" THEN {}
          ELSE {row \in t[x] : row.movie_id \notin MovieIds(t)}]
  ELSE [t EXCEPT ![name] = {}]

\* a store that returns the inserted rows last first
StoredRows_Reversed(r, rows) ==
  [n \in 1..Len(rows) |->
     [id |-> <<r, n>>,
      title |-> rows[Len(rows) + 1 - n].title,
      genre |-> rows[Len(rows) + 1 - n].genre,
      rating |-> rows[Len(rows) + 1 - n].rating,
      release_year |-> rows[Len(rows) + 1 - n].release_year,
      duration_minutes |-> rows[Len(rows) + 1 - n].duration_minutes,
      subscription_tier |-> rows[Len(rows) + 1 - n].subscription_tier,
      trailer_url |-> rows[Len(rows) + 1 - n].trailer_url,
      created_at |-> r]]

\* the rows the store makes of the bulk insert of run r: the generated id
\* is the pair of the run and the position
StoredRows(r, rows) ==
  [n \in 1..Len(rows) |->
     [id |-> <<r, n>>,
      title |-> rows[n].title,
      genre |-> rows[n].genre,
      rating |-> rows[n].rating,
      release_year |-> rows[n].release_year,
      duration_minutes |-> rows[n].duration_minutes,
      subscription_tier |-> rows[n].subscription_tier,
      trailer_url |-> rows[n].trailer_url,
      created_at |-> r]]

Range(s) == {s[n] : n \in 1..Len(s)}

\* an insert that replaces the table
InsertMovies_Replace(t, stored) == [t EXCEPT !["movies"] = Range(stored)]

\* INSERT INTO movies ... RETURNING *
InsertMovies(t, stored) == [t EXCEPT !["movies"] = @ \cup Range(stored)]

\* the foreign key of a dependent table rejects an insert whose movie_id
\* names no movies row
FkOk_Unchecked(t, rows) == TRUE

FkOk(t, rows) == \A n \in 1..Len(rows) : rows[n].movie_id \in MovieIds(t)

InsertInto(t, name, rows) == [t EXCEPT ![name] = @ \cup Range(rows)]

\* the sample rows the first migration inserts, and rows of the dependent
\* tables that reference them
SeedMovies ==
  { [id |-> <<0, 1>>, title |-> 101, genre |-> <<"Action", "Sci-Fi">>,
     rating |-> Some(87), release_year |-> Some(1999),
     duration_minutes |-> 136, subscription_tier |-> "Basic",
     trailer_url |-> None, created_at |-> 0],
    [id |-> <<0, 2>>, title |-> 102, genre |-> <<"Action", "Sci-Fi", "Thriller">>,
     rating |-> Some(88), release_year |-> Some(2010),
     duration_minutes |-> 148, subscription_tier |-> "Premium",
     trailer_url |-> None, created_at |-> 0] }

EmptyStore == [x \in Tables |-> {}]

SeedStore ==
  [x \in Tables |->
     CASE x = "movies" -> SeedMovies
       [] x = "cast_members" ->
            {[movie_id |-> <<0, 1>>, tmdb_person_id |-> 7, order_position |-> 0]}
       [] x = "crew_members" ->
            {[movie_id |-> <<0, 1>>, tmdb_person_id |-> 8, job |-> "Director"]}
       [] OTHER -> {[movie_id |-> <<0, 2>>, user_id |-> 1]}]

(***************************************************************************)
(* The responses of the handler.                                           *)
(***************************************************************************)
NoResponse ==
  [status |-> 0, success |-> FALSE, error |-> "", movies |-> 0, cast |-> 0, crew |-> 0]

\* { success: true, message, movies, cast, crew }, status 200
SuccessResponse(nMovies, nCast, nCrew) ==
  [status |-> 200, success |-> TRUE, error |-> "",
   movies |-> nMovies, cast |-> nCast, crew |-> nCrew]

\* { error: errorMessage }, status 500
ErrorResponse(message) ==
  [status |-> 500, success |-> FALSE, error |-> message,
   movies |-> 0, cast |-> 0, crew |-> 0]

(***************************************************************************)
(* The populate-movies handler, one action per awaited step.  In names     *)
(* the sets the step's inputs are drawn from:                              *)
(*   In.key      whether TMDB_API_KEY is set                               *)
(*   In.pageNet, In.videoNet, In.creditsNet                                *)
(*               outcomes of a provider request: "throw" (fetch or json    *)
(*               rejects), "status" (a non-success status), "ok"           *)
(*   In.pages    results lists of a discover page                          *)
(*   In.videos   results lists of a video listing                          *)
(*   In.rand     values of Math.random(), in thousandths                   *)
(*   In.dbErr    whether a store request answers with an error             *)
(*   In.credits  credits documents                                         *)
(***************************************************************************)

\* the start of the run without the credential check
Start_NoKeyCheck(r, In) ==
  /\ pc[r] = "idle"
  /\ \E key \in In.key : tmdbApiKey' = [tmdbApiKey EXCEPT ![r] = key]
  /\ pc' = [pc EXCEPT ![r] = "discover"]
  /\ UNCHANGED <<tbl, sortIdx, page, allMovies, uniqueMovies, i, k,
                 moviesToInsert, data, castCount, crewCount, creditsData,
                 response, nFetch, reached, nStore, waited>>

\* lines 14-24 and 33-43: the credential check and the start of the run
Start(r, In) ==
  /\ pc[r] = "idle"
  /\ \E key \in In.key :
       /\ tmdbApiKey' = [tmdbApiKey EXCEPT ![r] = key]
       /\ IF key
          THEN /\ pc' = [pc EXCEPT ![r] = "discover"]
               /\ response' = response
          ELSE \* throw new Error("TMDB_API_KEY is not set"), caught at line 271
               /\ pc' = [pc EXCEPT ![r] = "done"]
               /\ response' = [response EXCEPT ![r] =
                                 ErrorResponse("TMDB_API_KEY is not set")]
  /\ UNCHANGED <<tbl, sortIdx, page, allMovies, uniqueMovies, i, k,
                 moviesToInsert, data, castCount, crewCount, creditsData,
                 nFetch, reached, nStore, waited>>

FetchPage_NoOuterBreak(r, In) ==
  /\ pc[r] = "discover"
  /\ \E out \in In.pageNet, results \in In.pages :
       LET ok == out = "ok"
           \* lines 61-64
           all == IF ok /\ Len(results) > 0
                  THEN allMovies[r] \o results ELSE allMovies[r]
           \* line 70: evaluated only when the request succeeded
           target == ok /\ Len(all) >= targetMovieCount
           lastPage == page[r] >= pagesForThisSort
           lastSort == sortIdx[r] >= Len(sortingMethods)
           \* line 80
           stop == FALSE
       IN /\ allMovies' = [allMovies EXCEPT ![r] = all]
          /\ nFetch' = [nFetch EXCEPT ![r] = @ + 1]
          /\ reached' = [reached EXCEPT ![r] = @ \/ ok]
          \* line 67 is skipped by both continue statements
          /\ waited' = [waited EXCEPT ![r] = ok]
          /\ IF ~target /\ ~lastPage
             THEN /\ page' = [page EXCEPT ![r] = @ + 1]
                  /\ UNCHANGED <<sortIdx, pc>>
             ELSE IF ~stop /\ ~lastSort
             THEN /\ sortIdx' = [sortIdx EXCEPT ![r] = @ + 1]
                  /\ page' = [page EXCEPT ![r] = 1]
                  /\ UNCHANGED pc
             ELSE /\ pc' = [pc EXCEPT ![r] = "dedupe"]
                  /\ UNCHANGED <<sortIdx, page>>
  /\ UNCHANGED <<tmdbApiKey, tbl, uniqueMovies, i, k, moviesToInsert,
                 data, castCount,
                 crewCount, creditsData, response, nStore>>

FetchPage_FailureAborts(r, In) ==
  /\ pc[r] = "discover"
  /\ \E out \in In.pageNet, results \in In.pages :
       LET ok == out = "ok"
           \* lines 61-64
           all == IF ok /\ Len(results) > 0
                  THEN allMovies[r] \o results ELSE allMovies[r]
           \* line 70: evaluated only when the request succeeded
           target == ok /\ Len(all) >= targetMovieCount
           lastPage == page[r] >= pagesForThisSort
           lastSort == sortIdx[r] >= Len(sortingMethods)
           \* line 80
           stop == Len(all) >= targetMovieCount
       IN /\ allMovies' = [allMovies EXCEPT ![r] = all]
          /\ nFetch' = [nFetch EXCEPT ![r] = @ + 1]
          /\ reached' = [reached EXCEPT ![r] = @ \/ ok]
          \* line 67 is skipped by both continue statements
          /\ waited' = [waited EXCEPT ![r] = ok]
          /\ IF ~ok
             THEN /\ pc' = [pc EXCEPT ![r] = "dedupe"]
                  /\ UNCHANGED <<sortIdx, page>>
             ELSE IF ~target /\ ~lastPage
             THEN /\ page' = [page EXCEPT ![r] = @ + 1]
                  /\ UNCHANGED <<sortIdx, pc>>
             ELSE IF ~stop /\ ~lastSort
             THEN /\ sortIdx' = [sortIdx EXCEPT ![r] = @ + 1]
                  /\ page' = [page EXCEPT ![r] = 1]
                  /\ UNCHANGED pc
             ELSE /\ pc' = [pc EXCEPT ![r] = "dedupe"]
                  /\ UNCHANGED <<sortIdx, page>>
  /\ UNCHANGED <<tmdbApiKey, tbl, uniqueMovies, i, k, moviesToInsert,
                 data, castCount,
                 crewCount, creditsData, response, nStore>>


\* lines 45-81: one iteration of the page loop (one discover request)
FetchPage(r, In) ==
  /\ pc[r] = "discover"
  /\ \E out \in In.pageNet, results \in In.pages :
       LET ok == out = "ok"
           \* lines 61-64
           all == IF ok /\ Len(results) > 0
                  THEN allMovies[r] \o results ELSE allMovies[r]
           \* line 70: evaluated only when the request succeeded
           target == ok /\ Len(all) >= targetMovieCount
           lastPage == page[r] >= pagesForThisSort
           lastSort == sortIdx[r] >= Len(sortingMethods)
           \* line 80
           stop == Len(all) >= targetMovieCount
       IN /\ allMovies' = [allMovies EXCEPT ![r] = all]
          /\ nFetch' = [nFetch EXCEPT ![r] = @ + 1]
          /\ reached' = [reached EXCEPT ![r] = @ \/ ok]
          \* line 67 is skipped by both continue statements
          /\ waited' = [waited EXCEPT ![r] = ok]
          /\ IF ~target /\ ~lastPage
             THEN /\ page' = [page EXCEPT ![r] = @ + 1]
                  /\ UNCHANGED <<sortIdx, pc>>
             ELSE IF ~stop /\ ~lastSort
             THEN /\ sortIdx' = [sortIdx EXCEPT ![r] = @ + 1]
                  /\ page' = [page EXCEPT ![r] = 1]
                  /\ UNCHANGED pc
             ELSE /\ pc' = [pc EXCEPT ![r] = "dedupe"]
                  /\ UNCHANGED <<sortIdx, page>>
  /\ UNCHANGED <<tmdbApiKey, tbl, uniqueMovies, i, k, moviesToInsert,
                 data, castCount,
                 crewCount, creditsData, response, nStore>>

\* lines 83-99: deduplicate, truncate, enter the trailer loop
Dedupe(r) ==
  /\ pc[r] = "dedupe"
  /\ uniqueMovies' = [uniqueMovies EXCEPT ![r] = UniqueOf(allMovies[r])]
  /\ i' = [i EXCEPT ![r] = 1]
  /\ pc' = [pc EXCEPT ![r] =
              IF Len(UniqueOf(allMovies[r])) = 0 THEN "clear" ELSE "trailers"]
  /\ UNCHANGED <<tmdbApiKey,
                 tbl, sortIdx, page, allMovies, k, moviesToInsert, data,
                 castCount, crewCount, creditsData, response, nFetch, reached,
                 nStore, waited>>

\* lines 99-146: one iteration of the trailer loop
FetchTrailer(r, In) ==
  /\ pc[r] = "trailers"
  /\ \E out \in In.videoNet, videos \in In.videos, rndTier \in In.rand, rndDuration \in In.rand :
       LET movie == Provider(uniqueMovies[r][i[r]])
           trailerUrl == IF out = "ok" THEN TrailerUrlOf(videos) ELSE None
       IN /\ moviesToInsert' =
               [moviesToInsert EXCEPT ![r] =
                  Append(@, MakeRow(movie, trailerUrl, rndTier, rndDuration))]
          /\ nFetch' = [nFetch EXCEPT ![r] = @ + 1]
          /\ reached' = [reached EXCEPT ![r] = @ \/ out = "ok"]
          \* line 121 runs unless the request threw
          /\ waited' = [waited EXCEPT ![r] = out # "throw"]
  /\ i' = [i EXCEPT ![r] = @ + 1]
  /\ pc' = [pc EXCEPT ![r] =
              IF i[r] >= Len(uniqueMovies[r]) THEN "clear" ELSE "trailers"]
  /\ UNCHANGED <<tmdbApiKey,
                 tbl, sortIdx, page, allMovies, uniqueMovies, k, data,
                 castCount, crewCount, creditsData, response, nStore>>

\* lines 150-161: one of the six deletes; its result is not inspected
Clear(r, In) ==
  /\ pc[r] = "clear"
  /\ \E err \in In.dbErr :
       tbl' = IF err THEN tbl ELSE DeleteAll(tbl, clearOrder[k[r]])
  /\ nStore' = [nStore EXCEPT ![r] = @ + 1]
  /\ k' = [k EXCEPT ![r] = @ + 1]
  /\ pc' = [pc EXCEPT ![r] = IF k[r] >= Len(clearOrder) THEN "insert" ELSE "clear"]
  /\ UNCHANGED <<tmdbApiKey,
                 sortIdx, page, allMovies, uniqueMovies, i, moviesToInsert,
                 data, castCount, crewCount, creditsData, response, nFetch,
                 reached, waited>>

\* lines 165-183: the bulk insert; with no row to pair the credits loop is
\* not entered and the handler responds
InsertStep(r, In) ==
  /\ pc[r] = "insert"
  /\ nStore' = [nStore EXCEPT ![r] = @ + 1]
  /\ \E err \in In.dbErr :
       IF err
       THEN \* throw new Error(`Database error: ...`), caught at line 271
            /\ response' = [response EXCEPT ![r] = ErrorResponse("Database error")]
            /\ pc' = [pc EXCEPT ![r] = "done"]
            /\ UNCHANGED <<tbl, data, i, castCount, crewCount>>
       ELSE LET stored == StoredRows(r, moviesToInsert[r])
                none == Len(uniqueMovies[r]) = 0 \/ Len(stored) = 0
            IN /\ tbl' = InsertMovies(tbl, stored)
               /\ data' = [data EXCEPT ![r] = stored]
               /\ i' = [i EXCEPT ![r] = 1]
               /\ castCount' = [castCount EXCEPT ![r] = 0]
               /\ crewCount' = [crewCount EXCEPT ![r] = 0]
               /\ pc' = [pc EXCEPT ![r] = IF none THEN "done" ELSE "credits"]
               /\ response' = IF none
                              THEN [response EXCEPT ![r] =
                                      SuccessResponse(Len(stored), 0, 0)]
                              ELSE response
  /\ UNCHANGED <<tmdbApiKey,
                 sortIdx, page, allMovies, uniqueMovies, k, moviesToInsert,
                 creditsData, nFetch, reached, waited>>

keyJobs ==
  {"Director", "Writer", "Producer", "Executive Producer", "Screenplay", "Story"}

NoCredits == [cast |-> <<>>, crew |-> <<>>]

\* lines 198-205: creditsData.cast.slice(0, 10).map(...)
CastToInsert(movieId, cast) ==
  LET top == Slice(cast, 0, castLimit)
  IN [n \in 1..Len(top) |->
        [movie_id |-> movieId, tmdb_person_id |-> top[n].id,
         order_position |-> n - 1]]

CrewToInsert_CapFirst(movieId, crew) ==
  LET top == SelectSeq(Slice(crew, 0, crewLimit), LAMBDA c : c.job \in keyJobs)
  IN [n \in 1..Len(top) |->
        [movie_id |-> movieId, tmdb_person_id |-> top[n].id, job |-> top[n].job]]

\* lines 219-229: creditsData.crew.filter(...).slice(0, 15).map(...)
CrewToInsert(movieId, crew) ==
  LET key == SelectSeq(crew, LAMBDA c : c.job \in keyJobs)
      top == Slice(key, 0, crewLimit)
  IN [n \in 1..Len(top) |->
        [movie_id |-> movieId, tmdb_person_id |-> top[n].id, job |-> top[n].job]]

\* lines 189-194: the answer to /movie/${tmdbMovie.id}/credits is the credits
\* of that record: its persons are the provider's persons of the record id
CreditsFor(id, doc) ==
  [cast |-> [j \in 1..Len(doc.cast) |-> [id |-> id * 100 + doc.cast[j].id]],
   crew |-> [j \in 1..Len(doc.crew) |->
               [id |-> id * 100 + doc.crew[j].id, job |-> doc.crew[j].job]]]

\* the end of an iteration of the credits loop (line 183): the next
\* iteration, or the success response of lines 255-269
NextCredits(r, nCast, nCrew) ==
  IF i[r] < Min(Len(uniqueMovies[r]), Len(data[r]))
  THEN /\ i' = [i EXCEPT ![r] = @ + 1]
       /\ pc' = [pc EXCEPT ![r] = "credits"]
       /\ response' = response
  ELSE /\ i' = i
       /\ pc' = [pc EXCEPT ![r] = "done"]
       /\ response' = [response EXCEPT ![r] =
                         SuccessResponse(Len(data[r]), nCast, nCrew)]

FetchCredits_FailureAborts(r, In) ==
  /\ pc[r] = "credits"
  /\ \E out \in In.creditsNet, doc \in In.credits :
       /\ nFetch' = [nFetch EXCEPT ![r] = @ + 1]
       /\ reached' = [reached EXCEPT ![r] = @ \/ out = "ok"]
       /\ IF out = "ok"
          THEN /\ creditsData' = [creditsData EXCEPT ![r] =
                                    CreditsFor(uniqueMovies[r][i[r]], doc)]
               /\ pc' = [pc EXCEPT ![r] = "insert_cast"]
               /\ waited' = [waited EXCEPT ![r] = FALSE]
               /\ UNCHANGED <<i, response>>
          ELSE /\ creditsData' = creditsData
               /\ waited' = [waited EXCEPT ![r] = out = "status"]
               /\ i' = i
               /\ pc' = [pc EXCEPT ![r] = "done"]
               /\ response' = [response EXCEPT ![r] = ErrorResponse("credits")]
  /\ UNCHANGED <<tmdbApiKey,
                 tbl, sortIdx, page, allMovies, uniqueMovies, k, moviesToInsert,
                 data, castCount, crewCount, nStore>>

\* lines 187-194 and 241-252: the credits request of one inserted row
FetchCredits(r, In) ==
  /\ pc[r] = "credits"
  /\ \E out \in In.creditsNet, doc \in In.credits :
       /\ nFetch' = [nFetch EXCEPT ![r] = @ + 1]
       /\ reached' = [reached EXCEPT ![r] = @ \/ out = "ok"]
       /\ IF out = "ok"
          THEN /\ creditsData' = [creditsData EXCEPT ![r] =
                                    CreditsFor(uniqueMovies[r][i[r]], doc)]
               /\ pc' = [pc EXCEPT ![r] = "insert_cast"]
               /\ waited' = [waited EXCEPT ![r] = FALSE]
               /\ UNCHANGED <<i, response>>
          ELSE \* a non-success status falls through to the delay of line 244,
               \* a rejected request goes to the catch of line 250
               /\ creditsData' = creditsData
               /\ waited' = [waited EXCEPT ![r] = out = "status"]
               /\ NextCredits(r, castCount[r], crewCount[r])
  /\ UNCHANGED <<tmdbApiKey,
                 tbl, sortIdx, page, allMovies, uniqueMovies, k, moviesToInsert,
                 data, castCount, crewCount, nStore>>

InsertCast_CountsFailed(r, In) ==
  /\ pc[r] = "insert_cast"
  /\ LET rows == CastToInsert(data[r][i[r]].id, creditsData[r].cast)
     IN IF Len(creditsData[r].cast) > 0
        THEN /\ nStore' = [nStore EXCEPT ![r] = @ + 1]
             /\ \E err \in In.dbErr :
                  IF err \/ ~FkOk(tbl, rows)
                  THEN /\ tbl' = tbl
                       /\ castCount' = [castCount EXCEPT ![r] = @ + Len(rows)]
                  ELSE /\ tbl' = InsertInto(tbl, "cast_members", rows)
                       /\ castCount' = [castCount EXCEPT ![r] = @ + Len(rows)]
        ELSE UNCHANGED <<tbl, castCount, nStore>>
  /\ pc' = [pc EXCEPT ![r] = "insert_crew"]
  /\ UNCHANGED <<tmdbApiKey,
                 sortIdx, page, allMovies, uniqueMovies, i, k, moviesToInsert,
                 data, crewCount, creditsData, response, nFetch, reached, waited>>

\* lines 196-214: the cast insert of one inserted row
InsertCast(r, In) ==
  /\ pc[r] = "insert_cast"
  /\ LET rows == CastToInsert(data[r][i[r]].id, creditsData[r].cast)
     IN IF Len(creditsData[r].cast) > 0
        THEN /\ nStore' = [nStore EXCEPT ![r] = @ + 1]
             /\ \E err \in In.dbErr :
                  IF err \/ ~FkOk(tbl, rows)
                  THEN UNCHANGED <<tbl, castCount>>
                  ELSE /\ tbl' = InsertInto(tbl, "cast_members", rows)
                       /\ castCount' = [castCount EXCEPT ![r] = @ + Len(rows)]
        ELSE UNCHANGED <<tbl, castCount, nStore>>
  /\ pc' = [pc EXCEPT ![r] = "insert_crew"]
  /\ UNCHANGED <<tmdbApiKey,
                 sortIdx, page, allMovies, uniqueMovies, i, k, moviesToInsert,
                 data, crewCount, creditsData, response, nFetch, reached, waited>>

\* lines 216-249: the crew insert of one inserted row, then the delay
InsertCrew(r, In) ==
  /\ pc[r] = "insert_crew"
  /\ LET rows == CrewToInsert(data[r][i[r]].id, creditsData[r].crew)
     IN IF Len(creditsData[r].crew) > 0 /\ Len(rows) > 0
        THEN /\ nStore' = [nStore EXCEPT ![r] = @ + 1]
             /\ \E err \in In.dbErr :
                  IF err \/ ~FkOk(tbl, rows)
                  THEN UNCHANGED <<tbl, crewCount>>
                  ELSE /\ tbl' = InsertInto(tbl, "crew_members", rows)
                       /\ crewCount' = [crewCount EXCEPT ![r] = @ + Len(rows)]
        ELSE UNCHANGED <<tbl, crewCount, nStore>>
  /\ creditsData' = [creditsData EXCEPT ![r] = NoCredits]
  /\ waited' = [waited EXCEPT ![r] = TRUE]
  /\ castCount' = castCount
  /\ NextCredits(r, castCount[r], crewCount'[r])
  /\ UNCHANGED <<tmdbApiKey,
                 sortIdx, page, allMovies, uniqueMovies, k, moviesToInsert,
                 data, nFetch, reached>>

RunStep(r, In) ==
  /\ \/ Start(r, In)
     \/ FetchPage(r, In)
     \/ Dedupe(r)
     \/ FetchTrailer(r, In)
     \/ Clear(r, In)
     \/ InsertStep(r, In)
     \/ FetchCredits(r, In)
     \/ InsertCast(r, In)
     \/ InsertCrew(r, In)
  /\ UNCHANGED <<browseVars, filterVars, searchVars, playVars>>

InitRuns ==
  /\ pc = [r \in Runs |-> "idle"]
  /\ tmdbApiKey = [r \in Runs |-> FALSE]
  /\ sortIdx = [r \in Runs |-> 1]
  /\ page = [r \in Runs |-> 1]
  /\ allMovies = [r \in Runs |-> <<>>]
  /\ uniqueMovies = [r \in Runs |-> <<>>]
  /\ i = [r \in Runs |-> 1]
  /\ k = [r \in Runs |-> 1]
  /\ moviesToInsert = [r \in Runs |-> <<>>]
  /\ data = [r \in Runs |-> <<>>]
  /\ castCount = [r \in Runs |-> 0]
  /\ crewCount = [r \in Runs |-> 0]
  /\ creditsData = [r \in Runs |-> NoCredits]
  /\ response = [r \in Runs |-> NoResponse]
  /\ nFetch = [r \in Runs |-> 0]
  /\ reached = [r \in Runs |-> FALSE]
  /\ nStore = [r \in Runs |-> 0]
  /\ waited = [r \in Runs |-> TRUE]

\* results lists of length 0..n over the provider's ids
PageLists(n) == UNION {[1..m -> Pids] : m \in 0..n}

\* one page that repeats an id and carries more distinct ids than the target
LongPage ==
  [n \in 1..(targetMovieCount + 2) |-> IF n = 1 THEN 1 ELSE n - 1]

\* a cast of n members, in the provider's order
CastList(n) == [j \in 1..n |-> [id |-> 10 + j]]

\* a crew that opens with a job outside keyJobs and holds n key jobs
CrewList(n) ==
  [j \in 1..(n + 1) |->
     [id |-> 20 + j,
      job |-> IF j = 1 THEN "Editor" ELSE IF j % 2 = 0 THEN "Director" ELSE "Writer"]]

VideoLists ==
  { <<>>,
    <<[type |-> "Teaser", site |-> "YouTube", key |-> 1],
      [type |-> "Trailer", site |-> "Vimeo", key |-> 2],
      [type |-> "Trailer", site |-> "YouTube", key |-> 3],
      [type |-> "Trailer", site |-> "YouTube", key |-> 4]>> }

(***************************************************************************)
(* Part II.  The browsing page (Index): the paginated load of the catalog  *)
(* and the infinite scroll.  A catalog row the page is served is the row   *)
(* the handler above stores for a provider record.                         *)
(***************************************************************************)
ItemIds == 1..NumItems

Item(n) ==
  StoredRows(1, [m \in 1..n |->
                   MakeRow(Provider(m), None, (m * 333) % 1000, (m * 250) % 1000)])[n]

Ids(list) == {list[n].id : n \in 1..Len(list)}

\* new Date().getFullYear()
currentYear == 2026

DefaultYearRange == [min |-> 1970, max |-> currentYear]
DefaultRatingRange == [min |-> 0, max |-> 100]
DefaultDurationRange == [min |-> 0, max |-> 300]

\* the number a relational or arithmetic operator of the language makes of
\* a nullable column: null is 0
Num(v) == IF v = None THEN 0 ELSE v[1]

\* searchTerm.trim()
Trim(term) == IF term = " " THEN "" ELSE term

\* fuse.search(term).map(result => result.item): the library answers some
\* of the indexed rows, best match first
Arrangements(list) ==
  {[n \in 1..Len(pick) |-> list[pick[n]]] :
     pick \in {q \in UNION {[1..l -> 1..Len(list)] : l \in 0..Len(list)} :
                 NoDuplicates(q)}}

\* lines 327-333
matchesGenre(movie, genres) ==
  genres = {} \/ \E genre \in genres : genre \in Range(movie.genre)

matchesYear(movie, range) ==
  Num(movie.release_year) >= range.min /\ Num(movie.release_year) <= range.max

matchesRating(movie, range) ==
  Num(movie.rating) >= range.min /\ Num(movie.rating) <= range.max

matchesDuration(movie, range) ==
  movie.duration_minutes >= range.min /\ movie.duration_minutes <= range.max

matchesSubscription(movie, tier) ==
  tier = "all" \/ movie.subscription_tier = tier

Matches_NoYear(movie, f) ==
  /\ matchesGenre(movie, f.selectedGenres)
  /\ matchesRating(movie, f.ratingRange)
  /\ matchesDuration(movie, f.durationRange)
  /\ matchesSubscription(movie, f.subscriptionFilter)

Matches(movie, f) ==
  /\ matchesGenre(movie, f.selectedGenres)
  /\ matchesYear(movie, f.yearRange)
  /\ matchesRating(movie, f.ratingRange)
  /\ matchesDuration(movie, f.durationRange)
  /\ matchesSubscription(movie, f.subscriptionFilter)

\* lines 338-359: the comparator of the view's sort
Comparison(a, b, by) ==
  CASE by = "title" -> a.title - b.title
    [] by = "release_year" -> Num(a.release_year) - Num(b.release_year)
    [] by = "rating" -> Num(a.rating) - Num(b.rating)
    [] by = "duration_minutes" -> a.duration_minutes - b.duration_minutes
    [] OTHER -> a.created_at - b.created_at

Compare_NoFlip(a, b, by, order) == Comparison(a, b, by)

Compare(a, b, by, order) ==
  IF order = "desc" THEN 0 - Comparison(a, b, by) ELSE Comparison(a, b, by)

\* Array.prototype.sort: stable
RECURSIVE SortedInsert(_, _, _, _)
SortedInsert(sorted, x, by, order) ==
  IF sorted = <<>> THEN <<x>>
  ELSE LET last == sorted[Len(sorted)]
       IN IF Compare(last, x, by, order) <= 0
          THEN Append(sorted, x)
          ELSE Append(SortedInsert(SubSeq(sorted, 1, Len(sorted) - 1), x, by, order),
                      last)

RECURSIVE Sort(_, _, _)
Sort(list, by, order) ==
  IF list = <<>> THEN <<>>
  ELSE SortedInsert(Sort(SubSeq(list, 1, Len(list) - 1), by, order),
                    list[Len(list)], by, order)

\* lines 316-361: the views a render may compute from its state
Views(list, f, by, order) ==
  {Sort(SelectSeq(searched, LAMBDA movie : Matches(movie, f)), by, order) :
     searched \in IF Trim(f.searchTerm) # "" THEN Arrangements(list) ELSE {list}}

Filters ==
  [searchTerm |-> searchTerm, selectedGenres |-> selectedGenres,
   yearRange |-> yearRange, ratingRange |-> ratingRange,
   durationRange |-> durationRange, subscriptionFilter |-> subscriptionFilter]

\* Array.from(new Set(movies.flatMap(movie => movie.genre)))
allGenres == UNION {Range(movies[n].genre) : n \in 1..Len(movies)}

\* the values of one render that the effects and the scroll handler read
Snapshot ==
  [loading |-> loading, loadingMore |-> loadingMore, hasMore |-> hasMore,
   currentPage |-> currentPage, sortBy |-> sortBy, sortOrder |-> sortOrder]

\* a page request of fetchMovies(page, reset), issued by the closure of a
\* render whose sort is by/order; kind names the caller; before is history,
\* the list that was loaded when fetchMovies was called (kept when the
\* inputs ask for it, the empty list otherwise)
Request(kind, pg, reset, by, order, before) ==
  [kind |-> kind, page |-> pg, reset |-> reset, sortBy |-> by, sortOrder |-> order,
   before |-> before]

\* lines 36-37, 52-54 and 203-208: the search box after the first render
\* in a browser that holds no entry 'recentSearches'
InitSearchBox ==
  /\ searchInput = ""
  /\ searchSuggestions = <<>>
  /\ showSuggestions = FALSE
  /\ recentSearches = <<>>
  /\ localStorage = None

\* a visitor who is not signed in, and no Play button pressed yet
SignedOut ==
  /\ user = None
  /\ subscribed = FALSE
  /\ subscriptionTier = None
  /\ showTrailer = {}
  /\ toast = ""
  /\ clicked = None

\* the state after the first render and its effects: loadData() has set
\* loading and called fetchMovies(0, true); the scroll handler is registered
InitIndex ==
  /\ movies = <<>>
  /\ loading = TRUE
  /\ loadingMore = FALSE
  /\ hasMore = TRUE
  /\ currentPage = 0
  /\ sortBy = "release_year"
  /\ sortOrder = "desc"
  /\ loadData = "fetch"
  /\ rendered = Snapshot
  /\ handler = Snapshot
  /\ inflight = <<Request("initial", 0, TRUE, "release_year", "desc", <<>>)>>
  /\ newMovies = None
  /\ searchTerm = ""
  /\ selectedGenres = {}
  /\ yearRange = DefaultYearRange
  /\ ratingRange = DefaultRatingRange
  /\ durationRange = DefaultDurationRange
  /\ subscriptionFilter = "all"
  /\ filteredAndSortedMovies = <<>>

RemoveAt(s, n) == SubSeq(s, 1, n - 1) \o SubSeq(s, n + 1, Len(s))

\* lines 88-92: the functional update that appends a page
AppendUnique_All(prev, rows) == prev \o rows

AppendUnique(prev, rows) ==
  prev \o SelectSeq(rows, LAMBDA movie : movie.id \notin Ids(prev))

\* line 77: .order(sortBy, { ascending: sortOrder === 'asc' }) as the store
\* evaluates it: a null sorts as the greatest value
OrderKey(row, by) ==
  CASE by = "title" -> Some(row.title)
    [] by = "release_year" -> row.release_year
    [] by = "rating" -> row.rating
    [] by = "duration_minutes" -> Some(row.duration_minutes)
    [] OTHER -> Some(row.created_at)

MayPrecede(a, b, by, order) ==
  LET ka == OrderKey(a, by)
      kb == OrderKey(b, by)
  IN IF order = "asc"
     THEN kb = None \/ (ka # None /\ ka[1] <= kb[1])
     ELSE ka = None \/ (kb # None /\ ka[1] >= kb[1])

Ordered(list, by, order) ==
  \A a, b \in 1..Len(list) : a < b => MayPrecede(list[a], list[b], by, order)

\* line 77 over the rows of the movies table: the store answers two requests
\* of one ordering with the rows in one and the same order
OrderBy(rows, by, order) ==
  CHOOSE list \in [1..Cardinality(rows) -> rows] :
    NoDuplicates(list) /\ Ordered(list, by, order)

RangeOf_EndExcluded(list, from, to) == SubSeq(list, from + 1, Min(to, Len(list)))

\* line 78: .range(from, to), both ends included
RangeOf(list, from, to) == SubSeq(list, from + 1, Min(to + 1, Len(list)))

\* lines 71-78: the page of the movies table a request asks for
PageOf(t, req) ==
  RangeOf(OrderBy(t["movies"], req.sortBy, req.sortOrder),
          req.page * MOVIES_PER_PAGE,
          req.page * MOVIES_PER_PAGE + MOVIES_PER_PAGE - 1)

\* lines 74-78: the pages the store may answer to a request; when the
\* inputs take the catalog to change between two requests, any rows in the
\* order asked for
Answers(In, req) ==
  IF In.static
  THEN {PageOf(tbl, req)}
  ELSE {rows \in In.rows : Ordered(rows, req.sortBy, req.sortOrder)}

\* lines 103-109 and 166-179: a scroll event near the bottom runs the
\* registered handler, i.e. loadMoreMovies of the render that registered it
Scroll(In) ==
  /\ ~(handler.loadingMore \/ ~handler.hasMore)
  /\ handler.currentPage + 1 <= MaxPage
  /\ Len(inflight) < MaxInflight
  /\ loadingMore' = TRUE
  /\ inflight' = Append(inflight,
                        Request("more", handler.currentPage + 1, FALSE,
                                handler.sortBy, handler.sortOrder,
                                IF In.history THEN movies ELSE <<>>))
  /\ UNCHANGED <<movies, loading, hasMore, currentPage, sortBy, sortOrder,
                 loadData, rendered, handler, newMovies>>

FetchDone_ErrorEscapes(In) ==
  \E n \in 1..Len(inflight), err \in In.fetchErr :
    \E rows \in Answers(In, inflight[n]) :
    LET req == inflight[n]
    IN /\ inflight' = RemoveAt(inflight, n)
       /\ IF err
          THEN /\ newMovies' = None
               /\ UNCHANGED <<movies, hasMore, currentPage>>
          ELSE /\ newMovies' = Some(rows)
               /\ movies' = IF req.reset \/ req.page = 0
                            THEN rows ELSE AppendUnique(movies, rows)
               /\ hasMore' = (Len(rows) = MOVIES_PER_PAGE)
               /\ currentPage' = req.page
       /\ loadingMore' = IF req.kind = "more" /\ ~err THEN FALSE ELSE loadingMore
       /\ loadData' = IF req.kind = "initial" THEN "user" ELSE loadData
       /\ UNCHANGED <<loading, sortBy, sortOrder, rendered, handler>>

\* lines 70-101 and 108, 149-153: the answer to a page request
FetchDone(In) ==
  \E n \in 1..Len(inflight), err \in In.fetchErr :
    \E rows \in Answers(In, inflight[n]) :
    LET req == inflight[n]
    IN /\ inflight' = RemoveAt(inflight, n)
       /\ IF err
          THEN \* line 80 throws, line 99 logs
               /\ newMovies' = None
               /\ UNCHANGED <<movies, hasMore, currentPage>>
          ELSE /\ newMovies' = Some(rows)
               /\ movies' = IF req.reset \/ req.page = 0
                            THEN rows ELSE AppendUnique(movies, rows)
               /\ hasMore' = (Len(rows) = MOVIES_PER_PAGE)
               /\ currentPage' = req.page
       /\ loadingMore' = IF req.kind = "more" THEN FALSE ELSE loadingMore
       /\ loadData' = IF req.kind = "initial" THEN "user" ELSE loadData
       /\ UNCHANGED <<loading, sortBy, sortOrder, rendered, handler>>

\* lines 149-153: the rest of loadData
SetLoaded ==
  /\ loadData = "user"
  /\ loadData' = "done"
  /\ loading' = FALSE
  /\ UNCHANGED <<movies, loadingMore, hasMore, currentPage, sortBy, sortOrder,
                 rendered, handler, inflight, newMovies>>

\* the sort controls (setSortBy, setSortOrder)
ChangeSort(In) ==
  /\ \E by \in In.sortBy, order \in In.sortOrder :
       /\ <<by, order>> # <<sortBy, sortOrder>>
       /\ sortBy' = by
       /\ sortOrder' = order
  /\ UNCHANGED <<movies, loading, loadingMore, hasMore, currentPage, loadData,
                 rendered, handler, inflight, newMovies>>

\* a render is committed and its effects run: the sort effect of lines
\* 160-164 when sortBy or sortOrder changed, the scroll effect of lines
\* 167-179 when loadingMore, hasMore or currentPage changed
Render(In) ==
  /\ Snapshot # rendered
  /\ LET sortChanged ==
           <<sortBy, sortOrder>> # <<rendered.sortBy, rendered.sortOrder>>
         depsChanged ==
           <<loadingMore, hasMore, currentPage>> #
             <<rendered.loadingMore, rendered.hasMore, rendered.currentPage>>
         reset == sortChanged /\ ~loading
     IN /\ rendered' = Snapshot
        /\ handler' = IF depsChanged THEN Snapshot ELSE handler
        /\ IF reset
           THEN \* fetchMovies(0, true), lines 64-78
                /\ Len(inflight) < MaxInflight
                /\ currentPage' = 0
                /\ movies' = <<>>
                /\ hasMore' = TRUE
                /\ inflight' = Append(inflight,
                                      Request("sort", 0, TRUE, sortBy, sortOrder,
                                              IF In.history THEN movies ELSE <<>>))
           ELSE UNCHANGED <<currentPage, movies, hasMore, inflight>>
  /\ UNCHANGED <<loading, loadingMore, sortBy, sortOrder, loadData, newMovies>>

\* the render that follows a step computes the view anew
Memo ==
  filteredAndSortedMovies' \in
    Views(movies', [searchTerm |-> searchTerm', selectedGenres |-> selectedGenres',
                    yearRange |-> yearRange', ratingRange |-> ratingRange',
                    durationRange |-> durationRange',
                    subscriptionFilter |-> subscriptionFilter'],
          sortBy', sortOrder')

IndexStep(In) ==
  /\ \/ Scroll(In)
     \/ FetchDone(In)
     \/ SetLoaded
     \/ ChangeSort(In)
     \/ Render(In)
  /\ UNCHANGED <<searchTerm, selectedGenres, yearRange, ratingRange,
                 durationRange, subscriptionFilter>>
  /\ Memo
  /\ UNCHANGED <<ingestVars, searchVars, playVars>>

\* line 182: the search box is submitted
handleSearch(In) ==
  /\ \E text \in In.searchInput : searchTerm' = text
  /\ UNCHANGED <<selectedGenres, yearRange, ratingRange, durationRange,
                 subscriptionFilter>>

\* lines 185-191
handleGenreToggle ==
  /\ \E genre \in allGenres :
       selectedGenres' = IF genre \in selectedGenres
                         THEN selectedGenres \ {genre}
                         ELSE selectedGenres \cup {genre}
  /\ UNCHANGED <<searchTerm, yearRange, ratingRange, durationRange,
                 subscriptionFilter>>

\* lines 708, 717: the two year inputs
SetYearRange(In) ==
  /\ \/ \E v \in In.year : yearRange' = [yearRange EXCEPT !.min = v]
     \/ \E v \in In.year : yearRange' = [yearRange EXCEPT !.max = v]
  /\ yearRange' # yearRange
  /\ UNCHANGED <<searchTerm, selectedGenres, ratingRange, durationRange,
                 subscriptionFilter>>

\* lines 733, 743: the two rating inputs
SetRatingRange(In) ==
  /\ \/ \E v \in In.rating : ratingRange' = [ratingRange EXCEPT !.min = v]
     \/ \E v \in In.rating : ratingRange' = [ratingRange EXCEPT !.max = v]
  /\ ratingRange' # ratingRange
  /\ UNCHANGED <<searchTerm, selectedGenres, yearRange, durationRange,
                 subscriptionFilter>>

\* line 688
SetSubscriptionFilter ==
  /\ \E tier \in {"all", "Basic", "Premium"} :
       /\ tier # subscriptionFilter
       /\ subscriptionFilter' = tier
  /\ UNCHANGED <<searchTerm, selectedGenres, yearRange, ratingRange,
                 durationRange>>

\* lines 758-765: "Clear All Filters"
ClearAllFilters ==
  /\ selectedGenres' = {}
  /\ subscriptionFilter' = "all"
  /\ yearRange' = DefaultYearRange
  /\ ratingRange' = DefaultRatingRange
  /\ durationRange' = DefaultDurationRange
  /\ searchTerm' = ""

FilterStep(In) ==
  /\ \/ handleSearch(In)
     \/ handleGenreToggle
     \/ SetYearRange(In)
     \/ SetRatingRange(In)
     \/ SetSubscriptionFilter
     \/ ClearAllFilters
  /\ UNCHANGED browseVars
  /\ Memo
  /\ UNCHANGED <<ingestVars, searchVars, playVars>>

\* the inputs of SpecFilter
FilterIn ==
  [searchInput |-> {"", " ", "matrix"},
   year |-> {1970, 2000, currentYear},
   rating |-> {0, 80, 100}]

\* the page after its initial load has been answered with list
Loaded(list) ==
  /\ movies = list
  /\ loading = FALSE
  /\ loadingMore = FALSE
  /\ hasMore = (Len(list) = MOVIES_PER_PAGE)
  /\ currentPage = 0
  /\ sortBy = "release_year"
  /\ sortOrder = "desc"
  /\ loadData = "done"
  /\ rendered = Snapshot
  /\ handler = Snapshot
  /\ inflight = <<>>
  /\ newMovies = Some(list)
  /\ searchTerm = ""
  /\ selectedGenres = {}
  /\ yearRange = DefaultYearRange
  /\ ratingRange = DefaultRatingRange
  /\ durationRange = DefaultDurationRange
  /\ subscriptionFilter = "all"
  /\ filteredAndSortedMovies \in Views(list, Filters, sortBy, sortOrder)

\* lists of at most n catalog rows with distinct ids
DistinctRows(n) ==
  {[m \in 1..Len(ids) |-> Item(ids[m])] :
     ids \in {s \in UNION {[1..l -> ItemIds] : l \in 0..n} : NoDuplicates(s)}}

\* the inputs of SpecBrowse: a catalog that may change between two
\* requests, so that a page may hold any rows
BrowseIn ==
  [fetchErr |-> BOOLEAN,
   rows |-> DistinctRows(MOVIES_PER_PAGE),
   sortBy |-> {"release_year", "rating"},
   sortOrder |-> {"desc"},
   history |-> FALSE,
   static |-> FALSE]

\* the inputs of SpecResort: pages of the first two catalog rows, and each
\* request remembers the list that was loaded when it was issued
ResortIn ==
  [fetchErr |-> BOOLEAN,
   rows |-> {rows \in DistinctRows(MOVIES_PER_PAGE) :
               Ids(rows) \subseteq {Item(1).id, Item(2).id}},
   sortBy |-> {"release_year", "rating"},
   sortOrder |-> {"desc"},
   history |-> TRUE,
   static |-> FALSE]

\* a store whose catalog holds the first n rows and nothing else
Catalog(n) ==
  [x \in Tables |-> IF x = "movies" THEN {Item(m) : m \in 1..n} ELSE {}]

\* the inputs of SpecStatic: a catalog that does not change, requests that
\* do not fail, and two orderings that differ on every catalog of two or
\* more rows
StaticIn ==
  [fetchErr |-> {FALSE},
   rows |-> {},
   sortBy |-> {"release_year", "title"},
   sortOrder |-> {"desc"},
   history |-> FALSE,
   static |-> TRUE]

(***************************************************************************)
(* Part IV.  The search box of the browsing page: suggestions and recent   *)
(* searches.  A text is a string; Chars gives its characters, and the      *)
(* table covers the titles and genre labels of the rows and the texts the  *)
(* model types.                                                            *)
(***************************************************************************)
\* .slice(0, 5) of the matching movies (line 218)
titleLimit == 2
\* .slice(0, 3) of the matching genre labels (line 224)
genreLimit == 2
\* .slice(0, 5) of the recent searches (line 240)
recentLimit == 2

\* the title a row shows: the two sample rows of the first migration, and a
\* provider record titled like a genre label
TitleText(title) ==
  CASE title = 101 -> "The Matrix"
    [] title = 102 -> "Inception"
    [] OTHER -> "Thriller"

Chars(text) ==
  CASE text = "" -> <<>>
    [] text = " " -> <<" ">>
    [] text = "ac" -> <<"a", "c">>
    [] text = "AC" -> <<"A", "C">>
    [] text = "th" -> <<"t", "h">>
    [] text = "i" -> <<"i">>
    [] text = "The Matrix" -> <<"T", "h", "e", " ", "M", "a", "t", "r", "i", "x">>
    [] text = "Inception" -> <<"I", "n", "c", "e", "p", "t", "i", "o", "n">>
    [] text = "Thriller" -> <<"T", "h", "r", "i", "l", "l", "e", "r">>
    [] text = "Action" -> <<"A", "c", "t", "i", "o", "n">>
    [] text = "Sci-Fi" -> <<"S", "c", "i", "-", "F", "i">>
    [] text = "Drama" -> <<"D", "r", "a", "m", "a">>
    [] OTHER -> <<"?">>

\* String.prototype.toLowerCase, on the letters of the table
ToLowerCase(chars) ==
  [n \in 1..Len(chars) |->
     CASE chars[n] = "A" -> "a"
       [] chars[n] = "C" -> "c"
       [] chars[n] = "D" -> "d"
       [] chars[n] = "F" -> "f"
       [] chars[n] = "I" -> "i"
       [] chars[n] = "M" -> "m"
       [] chars[n] = "S" -> "s"
       [] chars[n] = "T" -> "t"
       [] OTHER -> chars[n]]

\* String.prototype.includes
Includes(chars, part) ==
  \E at \in 0..(Len(chars) - Len(part)) :
    SubSeq(chars, at + 1, at + Len(part)) = part

\* text.toLowerCase().includes(input.toLowerCase())
ContainsInput(text, input) ==
  Includes(ToLowerCase(Chars(text)), ToLowerCase(Chars(input)))

\* [...new Set(list)]: the first occurrence of every entry, in order
RECURSIVE SetOrder(_)
SetOrder(list) ==
  IF list = <<>> THEN <<>>
  ELSE LET init == SetOrder(SubSeq(list, 1, Len(list) - 1))
           last == list[Len(list)]
       IN IF last \in Range(init) THEN init ELSE Append(init, last)

RECURSIVE FlatMapGenre(_)
\* movies.flatMap(movie => movie.genre)
FlatMapGenre(list) ==
  IF list = <<>> THEN <<>>
  ELSE FlatMapGenre(SubSeq(list, 1, Len(list) - 1)) \o list[Len(list)].genre

\* Array.from(new Set(movies.flatMap(movie => movie.genre))), in its order
allGenresInOrder(list) == SetOrder(FlatMapGenre(list))

\* lines 214-217: the filter of the suggested movies
SuggestsMovie(movie, input) ==
  \/ ContainsInput(TitleText(movie.title), input)
  \/ \E n \in 1..Len(movie.genre) : ContainsInput(movie.genre[n], input)

Suggestions_NoSet(input, list) ==
  LET found == Slice(SelectSeq(list, LAMBDA movie : SuggestsMovie(movie, input)),
                     0, titleLimit)
      suggestions == [n \in 1..Len(found) |-> TitleText(found[n].title)]
      genreSuggestions ==
        Slice(SelectSeq(allGenresInOrder(list),
                        LAMBDA genre : ContainsInput(genre, input)),
              0, genreLimit)
  IN suggestions \o genreSuggestions

\* lines 213-226: the list the effect hands to setSearchSuggestions
Suggestions(input, list) ==
  LET found == Slice(SelectSeq(list, LAMBDA movie : SuggestsMovie(movie, input)),
                     0, titleLimit)
      suggestions == [n \in 1..Len(found) |-> TitleText(found[n].title)]
      genreSuggestions ==
        Slice(SelectSeq(allGenresInOrder(list),
                        LAMBDA genre : ContainsInput(genre, input)),
              0, genreLimit)
  IN SetOrder(suggestions \o genreSuggestions)

\* JSON.stringify of an array of strings, as its tokens
JSONstringify(list) ==
  <<[t |-> "[", v |-> ""]>>
  \o [n \in 1..(IF list = <<>> THEN 0 ELSE 2 * Len(list) - 1) |->
        IF n % 2 = 1 THEN [t |-> "string", v |-> list[(n + 1) \div 2]]
        ELSE [t |-> ",", v |-> ""]]
  \o <<[t |-> "]", v |-> ""]>>

\* JSON.parse of such a text
JSONparse(text) ==
  LET strings == SelectSeq(text, LAMBDA token : token.t = "string")
  IN [n \in 1..Len(strings) |-> strings[n].v]

\* line 240
NewRecentSearches_KeepsOld(term, recent) == Slice(<<term>> \o recent, 0, recentLimit)

NewRecentSearches(term, recent) ==
  Slice(<<term>> \o SelectSeq(recent, LAMBDA s : s # term), 0, recentLimit)

\* lines 211-232: the suggestions effect, which runs after a render that
\* changed searchInput (the list is not changed by a step of the search box)
SuggestEffect ==
  IF searchInput' = searchInput
  THEN UNCHANGED searchSuggestions
  ELSE searchSuggestions' = IF Len(Chars(searchInput')) > 1
                            THEN Suggestions(searchInput', movies)
                            ELSE <<>>

\* lines 235-245, then the effect; the effect's setShowSuggestions is the
\* later of the two
handleEnhancedSearch(term) ==
  /\ IF Trim(term) # ""
     THEN /\ searchTerm' = term
          /\ recentSearches' = NewRecentSearches(term, recentSearches)
          /\ localStorage' = Some(JSONstringify(recentSearches'))
     ELSE UNCHANGED <<searchTerm, recentSearches, localStorage>>
  /\ SuggestEffect
  /\ showSuggestions' = IF searchInput' = searchInput
                        THEN FALSE
                        ELSE Len(Chars(searchInput')) > 1

\* line 532: onChange of the search box, then the effect
SetSearchInput(In) ==
  /\ \E text \in In.typed :
       /\ text # searchInput
       /\ searchInput' = text
  /\ SuggestEffect
  /\ showSuggestions' = (Len(Chars(searchInput')) > 1)
  /\ UNCHANGED <<searchTerm, recentSearches, localStorage>>

\* lines 534-535: onFocus, and onBlur after its 200 ms
FocusOrBlur ==
  /\ showSuggestions' = ~showSuggestions
  /\ UNCHANGED <<searchInput, searchSuggestions, searchTerm, recentSearches,
                 localStorage>>

\* lines 533 and 594: Enter in the search box, the Search button
SubmitSearch ==
  /\ searchInput' = searchInput
  /\ handleEnhancedSearch(searchInput)

SuggestionsShown ==
  showSuggestions /\ (Len(searchSuggestions) > 0 \/ Len(recentSearches) > 0)

\* lines 550-563: a recent search is clicked
PickRecentSearch ==
  /\ SuggestionsShown
  /\ \E n \in 1..Len(recentSearches) :
       /\ searchInput' = recentSearches[n]
       /\ handleEnhancedSearch(recentSearches[n])

\* lines 572-585: a suggestion is clicked
PickSuggestion ==
  /\ SuggestionsShown
  /\ \E n \in 1..Len(searchSuggestions) :
       /\ searchInput' = searchSuggestions[n]
       /\ handleEnhancedSearch(searchSuggestions[n])

\* lines 291-294: the search tag is removed
RemoveSearchTag ==
  /\ searchTerm # ""
  /\ searchTerm' = ""
  /\ searchInput' = ""
  /\ SuggestEffect
  /\ showSuggestions' = IF searchInput = "" THEN showSuggestions ELSE FALSE
  /\ UNCHANGED <<recentSearches, localStorage>>

SearchStep(In) ==
  /\ \/ SetSearchInput(In)
     \/ FocusOrBlur
     \/ SubmitSearch
     \/ PickRecentSearch
     \/ PickSuggestion
     \/ RemoveSearchTag
  /\ UNCHANGED <<selectedGenres, yearRange, ratingRange, durationRange,
                 subscriptionFilter>>
  /\ UNCHANGED browseVars
  /\ Memo
  /\ UNCHANGED <<ingestVars, playVars>>

\* the inputs of SpecSearch: blank and one-character texts, texts in both
\* cases
SearchIn ==
  [typed |-> {"", " ", "ac", "AC", "th", "i"}]

\* first pages over the two sample rows and the record titled like a label
SearchPages ==
  {l \in {<<>>} \cup {<<a, b>> : a \in SeedMovies, b \in SeedMovies \cup {Item(1)}} :
     NoDuplicates(l) /\ Ordered(l, "release_year", "desc")}

\* lines 203-208: the mount effect reads the entry an earlier session left
InitSearch ==
  /\ tbl = SeedStore
  /\ InitRuns
  /\ \E list \in SearchPages : Loaded(list)
  /\ SignedOut
  /\ searchInput = ""
  /\ searchSuggestions = <<>>
  /\ showSuggestions = FALSE
  /\ localStorage \in {None, Some(JSONstringify(<<"ac">>))}
  /\ recentSearches = IF localStorage = None THEN <<>> ELSE JSONparse(localStorage[1])

NextSearch == SearchStep(SearchIn)

SpecSearch == InitSearch /\ [][NextSearch]_vars

(***************************************************************************)
(* Part V.  The Play button of the movie card and of the details page.     *)
(***************************************************************************)
\* the viewing-history rows a session writes
MaxHistory == 2

SubscriptionTiers == {None, Some("Basic"), Some("Premium")}

\* MovieCard.tsx lines 44-48
MovieCard_hasAccess(movie) ==
  IF ~subscribed THEN FALSE
  ELSE IF movie.subscription_tier = "Basic" THEN TRUE
  ELSE subscriptionTier = Some("Premium")

MovieDetails_hasAccess_AnySubscriber(movie) == subscribed

\* MovieDetails.tsx lines 164-168
MovieDetails_hasAccess(movie) ==
  IF ~subscribed THEN FALSE
  ELSE IF movie.subscription_tier = "Basic" THEN TRUE
  ELSE subscriptionTier = Some("Premium")

\* the viewing-history rows of the signed-in user
OwnHistory == {row \in tbl["viewing_history"] : Some(row.user_id) = user}

\* .from('viewing_history').insert({ user_id, movie_id, ... }): the row is
\* stored unless the request fails
InsertHistory(In, movie) ==
  /\ Cardinality(OwnHistory) < MaxHistory
  /\ \E err \in In.dbErr :
       IF err \/ movie.id \notin MovieIds(tbl)
       THEN tbl' = tbl
       ELSE tbl' = [tbl EXCEPT !["viewing_history"] =
                      @ \cup {[movie_id |-> movie.id, user_id |-> user[1],
                               watched |-> Cardinality(OwnHistory) + 1]}]

\* MovieCard.tsx lines 122-136
addToHistory(In, movie) ==
  IF user = None THEN tbl' = tbl ELSE InsertHistory(In, movie)

\* MovieCard.tsx lines 139-152: Play on the card of a loaded movie
MovieCard_handlePlay(In) ==
  \E n \in 1..Len(movies) :
    LET movie == movies[n]
    IN /\ clicked' = Some([page |-> "card", movie |-> movie.id])
       /\ IF ~MovieCard_hasAccess(movie)
          THEN /\ toast' = "Subscription required"
               /\ UNCHANGED <<tbl, showTrailer>>
          ELSE /\ showTrailer' = showTrailer \cup {movie.id}
               /\ addToHistory(In, movie)
               /\ toast' = toast

\* MovieDetails.tsx lines 241-270: Play on the details page of a movie of
\* the catalog (the page shows the button once the movie is loaded)
MovieDetails_handlePlay(In) ==
  \E movie \in tbl["movies"] :
    /\ clicked' = Some([page |-> "details", movie |-> movie.id])
    /\ showTrailer' = showTrailer
    /\ IF ~MovieDetails_hasAccess(movie)
       THEN /\ toast' = "Subscription required"
            /\ tbl' = tbl
       ELSE IF user # None
       THEN /\ InsertHistory(In, movie)
            /\ toast' = "Now playing"
       ELSE UNCHANGED <<tbl, toast>>

PlayStep(In) ==
  /\ \/ MovieCard_handlePlay(In)
     \/ MovieDetails_handlePlay(In)
  /\ UNCHANGED <<user, subscribed, subscriptionTier>>
  /\ UNCHANGED <<pc, tmdbApiKey, sortIdx, page, allMovies, uniqueMovies, i, k,
                 moviesToInsert, data, castCount, crewCount, creditsData,
                 response, nFetch, reached, nStore, waited>>
  /\ UNCHANGED <<browseVars, filterVars, searchVars>>

\* the inputs of SpecPlay: a history insert may fail
PlayIn == [dbErr |-> BOOLEAN]

NetOutcomes == {"throw", "status", "ok"}

\* the inputs of Spec: every failure of every request, two provider records
MainIn ==
  [key |-> BOOLEAN,
   pageNet |-> NetOutcomes,
   videoNet |-> NetOutcomes,
   creditsNet |-> NetOutcomes,
   pages |-> {<<>>, <<1, 2>>},
   videos |-> VideoLists,
   rand |-> {999},
   dbErr |-> BOOLEAN,
   credits |-> {[cast |-> CastList(n), crew |-> CrewList(m)] :
                  n \in {0, castLimit + 1}, m \in {0, crewLimit + 1}}]

\* the inputs of SpecDiscover: every results list on every discover page,
\* one page longer than the target, every failure of a discover request, and
\* no failure afterwards
DiscoverIn ==
  [key |-> {TRUE},
   pageNet |-> NetOutcomes,
   videoNet |-> {"ok"},
   creditsNet |-> {"ok"},
   pages |-> PageLists(MaxPageLen) \cup {LongPage},
   videos |-> {<<>>},
   rand |-> {0},
   dbErr |-> {FALSE},
   credits |-> {[cast |-> CastList(1), crew |-> CrewList(1)]}]

\* the inputs of SpecRows: every kind of provider record, and the random
\* source at the ends of its range and around the tier threshold
RowsIn ==
  [key |-> {TRUE},
   pageNet |-> {"ok"},
   videoNet |-> {"ok"},
   creditsNet |-> {"ok"},
   pages |-> {<<>>, <<1, 4>>, <<2, 3>>},
   videos |-> {<<>>},
   rand |-> {0, 700, 701, 999},
   dbErr |-> {FALSE},
   credits |-> {[cast |-> <<>>, crew |-> <<>>]}]

\* the inputs of SpecConc: two runs that find the same provider record, and
\* no failure
ConcIn ==
  [key |-> {TRUE},
   pageNet |-> {"ok"},
   videoNet |-> {"ok"},
   creditsNet |-> {"ok"},
   pages |-> {<<1>>},
   videos |-> {<<>>},
   rand |-> {0},
   dbErr |-> {FALSE},
   credits |-> {[cast |-> CastList(1), crew |-> CrewList(1)]}]

Init ==
  /\ tbl \in {EmptyStore, SeedStore}
  /\ InitRuns
  /\ InitIndex
  /\ InitSearchBox
  /\ SignedOut

\* one invocation of the handler
Next == \E r \in {1} : RunStep(r, MainIn)

Spec == Init /\ [][Next]_vars

NextDiscover == \E r \in {1} : RunStep(r, DiscoverIn)

SpecDiscover == Init /\ [][NextDiscover]_vars

\* two invocations of the handler at once: nothing in the handler orders
\* the steps of one against the steps of the other
NextConc == \E r \in Runs : RunStep(r, ConcIn)

SpecConc == Init /\ [][NextConc]_vars

NextRows == \E r \in {1} : RunStep(r, RowsIn)

SpecRows == Init /\ [][NextRows]_vars

\* the browsing page over a store that holds some catalog
NextBrowse == IndexStep(BrowseIn)

InitBrowse ==
  /\ tbl = SeedStore
  /\ InitRuns
  /\ InitIndex
  /\ InitSearchBox
  /\ SignedOut

SpecBrowse == InitBrowse /\ [][NextBrowse]_vars

\* rows of a later run: a record without votes (vote_average 0, stored as a
\* missing rating) and a rated record
LaterRows ==
  StoredRows(2, <<MakeRow([id |-> 5, title |-> 5, genre_ids |-> Some(<<18>>),
                           vote_average |-> 0, release_date |-> 20200101],
                          None, 0, 0),
                  MakeRow([id |-> 6, title |-> 6, genre_ids |-> Some(<<35>>),
                           vote_average |-> 450, release_date |-> 20210101],
                          None, 999, 999)>>)

\* the pages of SpecSort: first pages of a catalog of four rows
SortPages ==
  {rows \in {[n \in 1..Len(pick) |-> pick[n]] :
               pick \in {q \in UNION {[1..l -> {Item(1)} \cup Range(LaterRows)
                                                \cup {r \in SeedMovies : r.title = 101}] :
                                        l \in 0..MOVIES_PER_PAGE} :
                           NoDuplicates(q)}} :
     Ordered(rows, "release_year", "desc")}

\* the inputs of SpecSort: every sort key in both directions
SortIn ==
  [sortBy |-> {"title", "release_year", "rating", "duration_minutes", "created_at"},
   sortOrder |-> {"asc", "desc"}]

\* the sort controls over a loaded first page, up to the render that shows
\* the view in the new order
SortStep(In) ==
  /\ ChangeSort(In)
  /\ UNCHANGED <<searchTerm, selectedGenres, yearRange, ratingRange,
                 durationRange, subscriptionFilter>>
  /\ Memo
  /\ UNCHANGED <<ingestVars, searchVars, playVars>>

InitSort ==
  /\ tbl = SeedStore
  /\ InitRuns
  /\ \E list \in SortPages : Loaded(list)
  /\ InitSearchBox
  /\ SignedOut

NextSort == SortStep(SortIn)

SpecSort == InitSort /\ [][NextSort]_vars

\* the browsing page, with the history of its requests
NextResort == IndexStep(ResortIn)

SpecResort == InitBrowse /\ [][NextResort]_vars

\* the browsing page over a catalog that no run rewrites
InitStatic ==
  /\ \E n \in 0..NumItems : tbl = Catalog(n)
  /\ InitRuns
  /\ InitIndex
  /\ InitSearchBox
  /\ SignedOut

NextStatic == IndexStep(StaticIn)

SpecStatic == InitStatic /\ [][NextStatic]_vars

\* the inputs of SpecRetry: the catalog at rest, requests that may fail
RetryIn ==
  [fetchErr |-> BOOLEAN,
   rows |-> {},
   sortBy |-> {"release_year", "title"},
   sortOrder |-> {"desc"},
   history |-> FALSE,
   static |-> TRUE]

NextRetry == IndexStep(RetryIn)

\* line 74: the oldest outstanding request is settled, with a page or with
\* an error
AnswerFirst(In) ==
  /\ inflight # <<>>
  /\ IndexStep(In)
  /\ inflight' = Tail(inflight)

\* the browsing page when every request to the store is settled in the end
SpecRetry == InitStatic /\ [][NextRetry]_vars /\ WF_vars(AnswerFirst(RetryIn))

\* the inputs of SpecPaging: the catalog at rest, no failing request, one
\* ordering
PagingIn ==
  [fetchErr |-> {FALSE},
   rows |-> {},
   sortBy |-> {"release_year"},
   sortOrder |-> {"desc"},
   history |-> FALSE,
   static |-> TRUE]

\* the browsing page while the sort controls are left alone
PagingStep(In) ==
  /\ \/ Scroll(In)
     \/ FetchDone(In)
     \/ SetLoaded
     \/ Render(In)
  /\ UNCHANGED <<searchTerm, selectedGenres, yearRange, ratingRange,
                 durationRange, subscriptionFilter>>
  /\ Memo
  /\ UNCHANGED <<ingestVars, searchVars, playVars>>

NextPaging == PagingStep(PagingIn)

\* line 74: the oldest outstanding request is settled
PageAnswered(In) ==
  /\ inflight # <<>>
  /\ PagingStep(In)
  /\ inflight' = Tail(inflight)

\* the render that follows a state change is committed and its effects run
Rendered(In) == PagingStep(In) /\ rendered' # rendered

\* lines 167-179: the visitor keeps scrolling to the bottom
Triggered(In) == PagingStep(In) /\ Len(inflight') > Len(inflight)

\* the browsing page of a visitor who keeps scrolling, when every request
\* is settled and every render committed in the end
SpecPaging ==
  /\ InitStatic
  /\ [][NextPaging]_vars
  /\ WF_vars(PageAnswered(PagingIn))
  /\ WF_vars(Rendered(PagingIn))
  /\ WF_vars(Triggered(PagingIn))

\* the filter controls over a loaded first page
SeedPages ==
  {<<>>} \cup {<<a, b>> : a, b \in SeedMovies}

FirstPages ==
  {l \in DistinctRows(MOVIES_PER_PAGE) \cup SeedPages :
     NoDuplicates(l) /\ Ordered(l, "release_year", "desc")}

InitFilter ==
  /\ tbl = SeedStore
  /\ InitRuns
  /\ \E list \in FirstPages : Loaded(list)
  /\ InitSearchBox
  /\ SignedOut

NextFilter == FilterStep(FilterIn)

SpecFilter == InitFilter /\ [][NextFilter]_vars

\* a loaded first page of the seeded catalog, and a visitor in any state of
\* sign-in and subscription (a visitor who is not signed in has none)
InitPlay ==
  /\ tbl = SeedStore
  /\ InitRuns
  /\ \E list \in {l \in SeedPages : l \in FirstPages} : Loaded(list)
  /\ InitSearchBox
  /\ user \in {None, Some(2)}
  /\ subscribed \in BOOLEAN
  /\ subscriptionTier \in SubscriptionTiers
  /\ user = None => ~subscribed
  /\ showTrailer = {}
  /\ toast = ""
  /\ clicked = None

NextPlay == PlayStep(PlayIn)

SpecPlay == InitPlay /\ [][NextPlay]_vars

(***************************************************************************)
(* Properties of the populate-movies handler.                              *)
(***************************************************************************)
\* C1: whatever the discover pages returned, the deduplicated batch
\* (uniqueMovies) holds no provider id twice and at most targetMovieCount
\* records.
C1_DedupUniqueAndCapped ==
  \A r \in Runs :
    /\ NoDuplicates(uniqueMovies[r])
    /\ Len(uniqueMovies[r]) <= targetMovieCount

\* the accumulator held a repeated id and more distinct ids than the target,
\* and the run has deduplicated it
C1_Witness ==
  /\ pc[1] = "trailers"
  /\ ~NoDuplicates(allMovies[1])
  /\ Cardinality(Range(allMovies[1])) > targetMovieCount
  /\ Len(uniqueMovies[1]) = targetMovieCount

\* rows of the store that no run of the model inserted: the generated ids
\* of the rows a run r inserts are <<r, n>> with r in Runs
FromBefore(id) == id[1] \notin Runs

\* C2: once a run has reported success, the catalog is exactly the rows of
\* that run's bulk insert and no row of a dependent table references a
\* catalog row from before the run.
C2_FullReplacement ==
  \A r \in Runs :
    response[r].success =>
      /\ tbl["movies"] = Range(StoredRows(r, moviesToInsert[r]))
      /\ \A x \in Dependents : \A row \in tbl[x] : ~FromBefore(row.movie_id)

\* C3: a run in which no provider request succeeded ends with the error
\* response, never with the success response.
C3_UnreachableProviderIsError ==
  \A r \in Runs :
    (pc[r] = "done" /\ nFetch[r] > 0 /\ ~reached[r]) =>
      (response[r].status = 500 /\ ~response[r].success)

MissingKey(r) == pc[r] # "idle" /\ ~tmdbApiKey[r]

\* C4: a run that finds TMDB_API_KEY unset answers { error } with the
\* message, has issued no provider request and no store request, and the
\* step that finds it leaves every table as it was.
C4_MissingKeyAborts ==
  /\ [](\A r \in Runs :
          MissingKey(r) =>
            /\ pc[r] = "done"
            /\ response[r] = ErrorResponse("TMDB_API_KEY is not set")
            /\ nFetch[r] = 0
            /\ nStore[r] = 0)
  /\ [][\A r \in Runs : (~MissingKey(r) /\ MissingKey(r)') => tbl' = tbl]_vars

\* a run found the key unset while the store held rows
C4_Witness ==
  /\ MissingKey(1)
  /\ pc[1] = "done"
  /\ tbl = SeedStore

\* C5: nothing serializes two runs: a successful bulk insert adds the run's
\* rows and keeps every row the catalog holds, those of the other run
\* included, and a delete or insert step of a run is enabled wherever the
\* other run stands.
C5_InsertKeepsOtherRuns ==
  [][\A r \in Runs :
       (pc[r] = "insert" /\ pc'[r] # "insert" /\ response'[r].status # 500) =>
         tbl'["movies"] = tbl["movies"] \cup Range(data'[r])]_vars

\* both runs reported success and the catalog holds a row of each, built
\* from the same provider record
C5_Witness ==
  /\ response[1].success /\ response[2].success
  /\ \E a, b \in tbl["movies"] :
       a.id[1] = 1 /\ b.id[1] = 2 /\ a.title = b.title

(***************************************************************************)
(* Properties of the browsing page                                         *)
(***************************************************************************)

InView(movie) ==
  \E n \in 1..Len(filteredAndSortedMovies) : filteredAndSortedMovies[n] = movie

InRange(v, range) == range.min <= v /\ v <= range.max

AtDefaults ==
  /\ searchTerm = ""
  /\ selectedGenres = {}
  /\ yearRange = DefaultYearRange
  /\ ratingRange = DefaultRatingRange
  /\ durationRange = DefaultDurationRange
  /\ subscriptionFilter = "all"

\* C7: with an empty search term and every filter at its default, the
\* filtered view contains every loaded item.
C7_DefaultsKeepEverything ==
  AtDefaults => \A n \in 1..Len(movies) : InView(movies[n])

\* C8: the loaded list never holds two items with the same id.
C8_NoDuplicateIds ==
  NoDuplicates([n \in 1..Len(movies) |-> movies[n].id])

\* the last answer was appended to a list that already held one of its rows
C8_Witness ==
  /\ currentPage >= 1
  /\ newMovies # None
  /\ Len(movies) > Len(newMovies[1])
  /\ movies[1].id \in Ids(newMovies[1])

Answered == Len(inflight') < Len(inflight) /\ newMovies' # None

LoadMoreIssued ==
  /\ Len(inflight') > Len(inflight)
  /\ inflight'[Len(inflight')].kind = "more"

\* a fetched page of fewer than MOVIES_PER_PAGE items sets hasMore false, a
\* page of exactly MOVIES_PER_PAGE items sets it true
PageLengthSetsHasMore ==
  [][Answered => (hasMore' <=> Len(newMovies'[1]) = MOVIES_PER_PAGE)]_vars

\* C9: a fetched page of fewer than MOVIES_PER_PAGE items sets hasMore
\* false, a page of exactly MOVIES_PER_PAGE items keeps it true, and while
\* hasMore is false no load-more fetch is issued.
C9_EndOfData ==
  [][/\ Answered => (hasMore' <=> Len(newMovies'[1]) = MOVIES_PER_PAGE)
     /\ ~hasMore => ~LoadMoreIssued]_vars

LoadMoreOutstanding ==
  {n \in 1..Len(inflight) : inflight[n].kind = "more"}

\* C10: at most one load-more fetch is outstanding at any time, and a step
\* taken while one is outstanding issues no further load-more fetch.
C10_SingleLoadMore ==
  /\ [](Cardinality(LoadMoreOutstanding) <= 1)
  /\ [][LoadMoreOutstanding # {} => ~LoadMoreIssued]_vars

\* the step answers the n-th outstanding request with a failure
FailedAnswer(n) ==
  /\ n \in 1..Len(inflight)
  /\ inflight' = RemoveAt(inflight, n)
  /\ newMovies' = None

\* C11: when a page fetch fails, nothing is appended, and the items that
\* were loaded when a reset fetch was issued are still loaded after it
\* failed.
C11_FailedFetchKeepsData ==
  [][\A n \in 1..Len(inflight) :
       FailedAnswer(n) =>
         /\ movies' = movies
         /\ inflight[n].reset =>
              Ids(inflight[n].before) \subseteq Ids(movies')]_vars

\* a failed load-more fetch appends nothing and drops nothing
FailedLoadMoreKeepsData ==
  [][\A n \in 1..Len(inflight) :
       (FailedAnswer(n) /\ inflight[n].kind = "more") => movies' = movies]_vars

RECURSIVE Reverse(_)
Reverse(list) ==
  IF list = <<>> THEN <<>>
  ELSE Append(Reverse(SubSeq(list, 2, Len(list))), list[1])

\* the items of list have pairwise distinct values of the key
DistinctKeys(list, by) ==
  \A a, b \in 1..Len(list) : a # b => OrderKey(list[a], by) # OrderKey(list[b], by)

\* the step flips the sort direction and nothing else
FlipOnly == sortBy' = sortBy /\ sortOrder' # sortOrder

\* C12: when the items of the view have pairwise distinct values of the
\* sort key, flipping the direction turns the view into its exact reverse.
C12_SortReversal ==
  [][(FlipOnly /\ DistinctKeys(filteredAndSortedMovies, sortBy))
       => filteredAndSortedMovies' = Reverse(filteredAndSortedMovies)]_vars

\* the direction was flipped to ascending on a view of two rows with
\* distinct ratings, one of them missing
C12_Witness ==
  /\ sortBy = "rating"
  /\ sortOrder = "asc"
  /\ Len(filteredAndSortedMovies) = 2
  /\ DistinctKeys(filteredAndSortedMovies, "rating")
  /\ filteredAndSortedMovies[1].rating = None
  /\ movies[1].rating # None

(***************************************************************************)
(* Properties of the rows an ingestion run constructs                      *)
(***************************************************************************)

\* the static table of lines 286-306
GenreTable ==
  { <<28, "Action">>, <<12, "Adventure">>, <<16, "Animation">>, <<35, "Comedy">>,
    <<80, "Crime">>, <<99, "Documentary">>, <<18, "Drama">>, <<10751, "Family">>,
    <<14, "Fantasy">>, <<36, "History">>, <<27, "Horror">>, <<10402, "Music">>,
    <<9648, "Mystery">>, <<10749, "Romance">>, <<878, "Science Fiction">>,
    <<10770, "TV Movie">>, <<53, "Thriller">>, <<10752, "War">>, <<37, "Western">> }

\* the n-th row a run constructed, and the provider record it was built from
RowOf(r, n) == moviesToInsert[r][n]
RecordOf(r, n) == Provider(uniqueMovies[r][n])

\* C13: the stored genre list has exactly one label: the table's label of
\* the first genre code when the table holds it, 'Action' when the code
\* list is absent or empty, 'Drama' when the table does not hold the code.
C13_GenreMapping ==
  \A r \in Runs : \A n \in 1..Len(moviesToInsert[r]) :
    LET codes == RecordOf(r, n).genre_ids
        label == RowOf(r, n).genre
    IN /\ Len(label) = 1
       /\ (codes = None \/ codes = Some(<<>>)) => label[1] = "Action"
       /\ (codes # None /\ codes # Some(<<>>)) =>
            IF \E entry \in GenreTable : entry[1] = codes[1][1]
            THEN <<codes[1][1], label[1]>> \in GenreTable
            ELSE label[1] = "Drama"

\* a run has built rows from a record with a known first code, a record
\* with an empty code list and a record with a code the table does not hold
C13_Witness ==
  /\ pc[1] = "done"
  /\ response[1].success
  /\ \E a, b, c \in 1..Len(moviesToInsert[1]) :
       /\ RecordOf(1, a).genre_ids = Some(<<>>)
       /\ RecordOf(1, b).genre_ids = Some(<<12345>>)
       /\ RecordOf(1, c).genre_ids = Some(<<28, 12>>)

\* C14: every row a run constructs has tier 'Basic' or 'Premium' and a
\* duration between 90 and 150 minutes, whatever the random source gives.
C14_RowInvariant ==
  \A r \in Runs : \A n \in 1..Len(moviesToInsert[r]) :
    /\ RowOf(r, n).subscription_tier \in {"Basic", "Premium"}
    /\ RowOf(r, n).duration_minutes >= 90
    /\ RowOf(r, n).duration_minutes <= 150

\* a run has built a row of each tier, the shortest and the longest duration
C14_Witness ==
  /\ pc[1] = "done"
  /\ \E a, b \in 1..Len(moviesToInsert[1]) :
       /\ RowOf(1, a).subscription_tier = "Basic"
       /\ RowOf(1, b).subscription_tier = "Premium"
       /\ RowOf(1, a).duration_minutes = 90
       /\ RowOf(1, b).duration_minutes = 149

\* the step is a discovery-page request of run r that failed (the delay of
\* line 67 is skipped by exactly the two continue statements)
PageFailed(r) ==
  /\ pc[r] = "discover"
  /\ nFetch'[r] = nFetch[r] + 1
  /\ ~waited'[r]

\* C15: a discovery page whose request fails contributes no records and
\* ends neither the strategy nor the run: the run requests the next page of
\* the same strategy (the first page of the next strategy after the last
\* page, deduplication after the last page of the last strategy).
C15_PageFailureSkipped ==
  [][\A r \in Runs :
       PageFailed(r) =>
         /\ allMovies'[r] = allMovies[r]
         /\ response'[r] = NoResponse
         /\ IF page[r] < pagesForThisSort
            THEN pc'[r] = "discover" /\ sortIdx'[r] = sortIdx[r]
                 /\ page'[r] = page[r] + 1
            ELSE IF sortIdx[r] < Len(sortingMethods)
            THEN pc'[r] = "discover" /\ sortIdx'[r] = sortIdx[r] + 1
                 /\ page'[r] = 1
            ELSE pc'[r] = "dedupe"]_vars

\* the first page of the first strategy failed and the run is about to
\* request the second page of that strategy
C15_Witness ==
  /\ pc[1] = "discover"
  /\ nFetch[1] = 1
  /\ ~waited[1]
  /\ allMovies[1] = <<>>
  /\ sortIdx[1] = 1
  /\ page[1] = 2

\* the step ends an iteration of the credits loop of run r: a credits
\* request that failed, or the crew insert (failed, skipped or done)
IterationEnds(r) ==
  \/ pc[r] = "credits" /\ nFetch'[r] = nFetch[r] + 1 /\ pc'[r] # "insert_cast"
  \/ pc[r] = "insert_crew" /\ pc'[r] # "insert_crew"

\* C16: the credits loop attempts a credits request for every inserted row:
\* it starts at the first row, at the end of every iteration (whatever
\* failed in it) it goes on to the next inserted row, a cast insert is
\* always followed by the crew insert, and only after the last inserted row
\* the run answers, with a success response.
C16_CreditsFailureIsolation ==
  [][\A r \in Runs :
       /\ (pc[r] = "insert" /\ pc'[r] # "insert" /\ Len(data'[r]) > 0) =>
            pc'[r] = "credits" /\ i'[r] = 1 /\ response'[r] = NoResponse
       /\ (pc[r] = "insert_cast" /\ pc'[r] # "insert_cast") =>
            pc'[r] = "insert_crew" /\ i'[r] = i[r] /\ response'[r] = NoResponse
       /\ IterationEnds(r) =>
            IF i[r] < Len(data[r])
            THEN pc'[r] = "credits" /\ i'[r] = i[r] + 1
                 /\ response'[r] = NoResponse
            ELSE pc'[r] = "done" /\ response'[r].success]_vars

\* the credits request of the first inserted row was rejected and the
\* request of the second row is about to be made
C16_Witness ==
  /\ pc[1] = "credits"
  /\ i[1] = 2
  /\ Len(data[1]) >= 2
  /\ ~waited[1]

\* the rows of a dependent table that reference catalog rows inserted by run r
RowsOfRun(name, r) == {c \in tbl[name] : c.movie_id[1] = r}

\* C17: in a success response the movies count is the number of catalog
\* rows the run inserted, and the cast and crew counts are the numbers of
\* cast and crew rows the run stored (a failed or skipped insert counts
\* nothing).
C17_ReportCounts ==
  \A r \in {1} :
    (pc[r] = "done" /\ response[r].success) =>
      /\ response[r].movies = Len(data[r])
      /\ response[r].movies = Cardinality({m \in tbl["movies"] : m.id[1] = r})
      /\ response[r].cast = Cardinality(RowsOfRun("cast_members", r))
      /\ response[r].crew = Cardinality(RowsOfRun("crew_members", r))

\* a success response of a run in which the cast insert of one row failed
\* and the cast insert of another succeeded, and so for the crew
C17_Witness ==
  /\ pc[1] = "done"
  /\ response[1].success
  /\ response[1].movies = 2
  /\ response[1].cast = castLimit
  /\ response[1].crew = crewLimit
  /\ nStore[1] = Len(clearOrder) + 1 + 4

\* the texts a submitted search may carry
SubmittedTerm(term) == searchTerm' = term /\ Trim(term) # ""

\* C18: the recent-searches list has at most recentLimit entries, pairwise
\* distinct by exact text; a submitted non-blank term becomes its head and
\* the earlier entries follow in the order they had; the entry in local
\* storage holds the list in memory.
C18_RecentSearches ==
  /\ Len(recentSearches) <= recentLimit
  /\ NoDuplicates(recentSearches)
  /\ Trim(searchTerm) # "" => recentSearches[1] = searchTerm
  /\ IF localStorage = None THEN recentSearches = <<>>
     ELSE JSONparse(localStorage[1]) = recentSearches
  /\ [][(searchTerm' # searchTerm /\ Trim(searchTerm') # "") =>
          /\ recentSearches'[1] = searchTerm'
          /\ LET others == SelectSeq(recentSearches, LAMBDA s : s # searchTerm')
             IN \E m \in 0..Len(others) :
                  Tail(recentSearches') = SubSeq(others, 1, m)
          /\ \A s \in Range(recentSearches) :
               s \in Range(recentSearches') \/ Len(recentSearches') = recentLimit]_vars

\* a full list whose head was resubmitted from further down
C18_Witness ==
  /\ Len(recentSearches) = recentLimit
  /\ recentSearches[1] = "ac"
  /\ recentSearches[2] = "AC"
  /\ searchTerm = "ac"
  /\ localStorage = Some(JSONstringify(recentSearches))

TitleHits(input) ==
  {TitleText(movies[n].title) : n \in {m \in 1..Len(movies) :
     ContainsInput(TitleText(movies[m].title), input)}}

TitleOrGenreHits(input) ==
  {TitleText(movies[n].title) : n \in {m \in 1..Len(movies) :
     \/ ContainsInput(TitleText(movies[m].title), input)
     \/ \E g \in Range(movies[m].genre) : ContainsInput(g, input)}}

GenreHits(input) == {g \in allGenres : ContainsInput(g, input)}

\* the suggestion list is made of at most titleLimit entries of titles and
\* at most genreLimit entries of labels, without duplicates
MadeOf(titles, labels) ==
  /\ Range(searchSuggestions) \subseteq titles \cup labels
  /\ Cardinality(Range(searchSuggestions) \ labels) <= titleLimit
  /\ Cardinality(Range(searchSuggestions) \ titles) <= genreLimit
  /\ NoDuplicates(searchSuggestions)

MayWatch(movie) ==
  subscribed /\ (movie.subscription_tier = "Basic" \/ subscriptionTier = Some("Premium"))

\* the movie of the Play button pressed in this step
PlayedMovie == CHOOSE movie \in tbl["movies"] : movie.id = clicked'[1].movie

RequestAfterPageOrTrailer(r) ==
  /\ nFetch'[r] = nFetch[r] + 1
  /\ nFetch[r] > 0
  /\ \/ pc[r] \in {"discover", "trailers"}
     \/ pc[r] = "credits" /\ i[r] = 1

\* C21: the courtesy delay has elapsed after every discovery-page request
\* and every trailer lookup before the run issues its next provider
\* request, whatever the outcome of the request was.
C21_DelayOnEveryOutcome ==
  [][\A r \in Runs : RequestAfterPageOrTrailer(r) => waited[r]]_vars

\* C22: no discovery-page request is issued once the accumulator holds at
\* least targetMovieCount records: a run that stands in the page loop, in
\* any strategy, holds fewer, and the request that reaches the target is the
\* last of the page loop.
C22_EarlyStop ==
  /\ \A r \in Runs : pc[r] = "discover" => Len(allMovies[r]) < targetMovieCount
  /\ [][\A r \in Runs :
          (pc[r] = "discover" /\ Len(allMovies'[r]) >= targetMovieCount) =>
            pc'[r] = "dedupe"]_vars

\* the first page of the first strategy reached the target and the run left
\* the page loop with the other pages and the second strategy unrequested
C22_Witness ==
  /\ pc[1] = "dedupe"
  /\ Len(allMovies[1]) >= targetMovieCount
  /\ nFetch[1] = 1
  /\ sortIdx[1] = 1
  /\ page[1] = 1

\* the order of the deletes the claim names
DeleteOrder ==
  <<"cast_members", "crew_members", "user_ratings", "viewing_history",
    "watchlist", "movies">>

\* the tables that lost rows in this step, and those that gained rows
Shrunk == {x \in Tables : tbl'[x] # tbl[x] /\ tbl'[x] \subseteq tbl[x]}
Grown == {x \in Tables : ~(tbl'[x] \subseteq tbl[x])}

\* C23: the n-th store request of a run deletes from the n-th table of the
\* order cast, crew, user ratings, viewing history, watchlist, catalog (only
\* the catalog delete reaches other tables, by cascade); rows are inserted
\* only after six deletes; and no store request is issued before the page
\* loop and every trailer lookup of the run have finished.
C23_PersistOrdering ==
  [][\A r \in {1} :
       /\ (nStore'[r] = nStore[r] + 1 /\ nStore[r] < Len(DeleteOrder)) =>
            /\ Grown = {}
            /\ Shrunk \subseteq
                 IF DeleteOrder[nStore[r] + 1] = "movies"
                 THEN Tables ELSE {DeleteOrder[nStore[r] + 1]}
       /\ Grown # {} => nStore[r] >= Len(DeleteOrder)
       /\ tbl' # tbl =>
            /\ pc[r] \notin {"idle", "discover", "dedupe", "trailers"}
            /\ Len(moviesToInsert[r]) = Len(uniqueMovies[r])]_vars

\* cast and crew are deleted, the user ratings are next, the catalog is
\* still there
C23_Witness ==
  /\ pc[1] = "clear"
  /\ nStore[1] = 2
  /\ tbl["cast_members"] = {}
  /\ tbl["crew_members"] = {}
  /\ tbl["user_ratings"] # {}
  /\ tbl["movies"] = SeedMovies
  /\ Len(moviesToInsert[1]) = 2

\* the provider record a person of a credits list belongs to
RecordOfPerson(row) == row.tmdb_person_id \div 100

\* the cast and crew rows stored for catalog rows of run r
CreditRowsOf(r) == RowsOfRun("cast_members", r) \cup RowsOfRun("crew_members", r)

\* C24: the i-th row the bulk insert returned is the row built from the
\* i-th deduplicated provider record, and every cast and crew row stored
\* for a catalog row of the run holds a person of the credits of the
\* provider record that catalog row was built from.
C24_CreditsPairing ==
  \A r \in {1} :
    /\ \A n \in 1..Len(data[r]) :
         /\ n <= Len(uniqueMovies[r])
         /\ data[r][n].title = Provider(uniqueMovies[r][n]).title
    /\ \A row \in CreditRowsOf(r) :
         \E movie \in tbl["movies"] :
           /\ movie.id = row.movie_id
           /\ movie.title = Provider(RecordOfPerson(row)).title

\* cast and crew rows are stored for two catalog rows built from two
\* provider records
C24_Witness ==
  /\ pc[1] = "done"
  /\ response[1].success
  /\ {row.movie_id : row \in RowsOfRun("cast_members", 1)} = {<<1, 1>>, <<1, 2>>}
  /\ {row.movie_id : row \in RowsOfRun("crew_members", 1)} = {<<1, 1>>, <<1, 2>>}

\* the job titles the claim allows
AllowedJobs ==
  {"Director", "Writer", "Producer", "Executive Producer", "Screenplay", "Story"}

\* the rows a step added to a table
Added(name) == tbl'[name] \ tbl[name]

\* C25: a cast insert stores the first castLimit members of the provider's
\* cast (all of them when there are fewer), at the order positions 0..n-1 in
\* the provider's order; a crew insert stores the first crewLimit of the
\* provider's crew members whose job is in the allow-list, so the filter
\* comes before the cap; nothing else adds cast or crew rows, and every
\* stored crew row of a run has an allowed job.
C25_CreditsCaps ==
  /\ \A row \in RowsOfRun("crew_members", 1) : row.job \in AllowedJobs
  /\ [][\A r \in {1} :
          LET cast == creditsData[r].cast
              shown == SelectSeq(creditsData[r].crew, LAMBDA c : c.job \in AllowedJobs)
          IN /\ Added("cast_members") # {} =>
                  /\ pc[r] = "insert_cast"
                  /\ Cardinality(Added("cast_members")) = Min(castLimit, Len(cast))
                  /\ \A row \in Added("cast_members") :
                       /\ row.order_position \in 0..(Min(castLimit, Len(cast)) - 1)
                       /\ row.tmdb_person_id = cast[row.order_position + 1].id
             /\ Added("crew_members") # {} =>
                  /\ pc[r] = "insert_crew"
                  /\ Cardinality(Added("crew_members")) = Min(crewLimit, Len(shown))
                  /\ \A row \in Added("crew_members") :
                       \E n \in 1..Min(crewLimit, Len(shown)) :
                         row.tmdb_person_id = shown[n].id /\ row.job = shown[n].job]_vars

\* a catalog row with a cast and a crew cut at their caps, from credits that
\* held one member more and opened the crew with a job outside the list
C25_Witness ==
  /\ pc[1] = "done"
  /\ Cardinality({row \in RowsOfRun("cast_members", 1) : row.movie_id = <<1, 1>>}) = castLimit
  /\ Cardinality({row \in RowsOfRun("crew_members", 1) : row.movie_id = <<1, 1>>}) = crewLimit

\* C26: in every state of the store, with two runs interleaved, every cast
\* row and every crew row references a catalog row that exists, and a step
\* that removes a catalog row removes the cast and crew rows referencing it.
C26_ReferentialIntegrity ==
  /\ \A name \in {"cast_members", "crew_members"} :
       \A row \in tbl[name] : row.movie_id \in MovieIds(tbl)
  /\ [][\A name \in {"cast_members", "crew_members"} :
          \A row \in tbl[name] :
            row.movie_id \notin MovieIds(tbl') => row \notin tbl'[name]]_vars

\* a run has finished whose catalog row the other run deleted before the
\* cast insert, which the store refused
C26_Witness ==
  /\ pc[1] = "done"
  /\ response[1].success
  /\ response[1].movies = 1
  /\ response[1].cast = 0
  /\ \A movie \in tbl["movies"] : movie.id[1] # 1

\* the rows of pages 0..pg of the catalog in an ordering
PagesUpTo(pg, by, order) ==
  RangeOf(OrderBy(tbl["movies"], by, order), 0, (pg + 1) * MOVIES_PER_PAGE - 1)

\* no request is outstanding and the effects of the last change have run
AtRest == inflight = <<>> /\ rendered = Snapshot

\* the step answers the n-th outstanding request, a load-more, with a page
LoadMoreAnswered(n) ==
  /\ n \in 1..Len(inflight)
  /\ inflight[n].kind = "more"
  /\ inflight' = RemoveAt(inflight, n)
  /\ newMovies' # None

FailedBulkInsert(r) ==
  /\ pc[r] = "insert"
  /\ pc'[r] # "insert"
  /\ moviesToInsert[r] # <<>>
  /\ \A movie \in tbl'["movies"] : movie.id[1] # r

\* C28: when the bulk insert of a run fails, the run ends with the error
\* response, requests no credits and stores no cast or crew row, and the
\* catalog and its dependent tables are empty.
C28_FailedBulkInsert ==
  /\ [][\A r \in {1} :
          FailedBulkInsert(r) =>
            /\ response'[r].status = 500 /\ ~response'[r].success
            /\ pc'[r] = "done"
            /\ \A x \in Tables : tbl'[x] = {}]_vars
  /\ [][\A r \in {1} :
          pc[r] = "done" => (nFetch'[r] = nFetch[r] /\ nStore'[r] = nStore[r])]_vars

\* a failed bulk insert ends the run with the error response and restores
\* nothing: the store is as the six deletes left it
FailedInsertEndsRun ==
  /\ [][\A r \in {1} :
          FailedBulkInsert(r) =>
            /\ response'[r].status = 500 /\ ~response'[r].success
            /\ pc'[r] = "done"
            /\ tbl' = tbl
            /\ \A x \in Tables : tbl[x] \subseteq SeedStore[x]]_vars
  /\ [][\A r \in {1} :
          pc[r] = "done" => (nFetch'[r] = nFetch[r] /\ nStore'[r] = nStore[r])]_vars

\* the step settles the n-th outstanding request, a load-more
LoadMoreSettled(n) ==
  /\ n \in 1..Len(inflight)
  /\ inflight[n].kind = "more"
  /\ inflight' = RemoveAt(inflight, n)

\* C29: a load-more that started is settled in the end and the step that
\* settles it, with a page or with an error, sets loadingMore false, so
\* loadingMore never stays true; a load-more that failed leaves hasMore and
\* currentPage as they were, and once the render has run the registered
\* trigger is free and asks for the page after currentPage again.
C29_LoadMoreCompletes ==
  /\ loadingMore ~> ~loadingMore
  /\ [](loadingMore => LoadMoreOutstanding # {})
  /\ [][\A n \in 1..Len(inflight) :
          LoadMoreSettled(n) =>
            /\ ~loadingMore'
            /\ newMovies' = None => (hasMore' = hasMore /\ currentPage' = currentPage)]_vars
  /\ []((rendered = Snapshot /\ newMovies = None /\ ~loadingMore) =>
          /\ ~handler.loadingMore
          /\ handler.hasMore = hasMore
          /\ handler.currentPage = currentPage)

\* a load-more for the second page failed: the first page is still the
\* list, the flag is reset and the trigger is registered anew
C29_Witness ==
  /\ AtRest
  /\ loadData = "done"
  /\ newMovies = None
  /\ ~loadingMore
  /\ hasMore
  /\ currentPage = 0
  /\ sortBy = "release_year"
  /\ Len(movies) = MOVIES_PER_PAGE
  /\ movies = PagesUpTo(0, sortBy, sortOrder)

\* the loaded list holds every row of the catalog, each once
WholeCatalog ==
  /\ NoDuplicates(movies)
  /\ Range(movies) = tbl["movies"]

\* the request of the initial load has been answered
InitialAnswered == loadData # "fetch"

====
